---------------------------- MODULE Spec2Model ----------------------------
(***************************************************************************)
(* A model of the demangling node printer, lib/Demangling/NodePrinter.cpp. *)
(*                                                                         *)
(* A Node is a record [kind, text, bytes, index, children].  The NodePrinter*)
(* object is a record [Printer, Options, SpecializationPrefixPrinted,      *)
(* isValid, aborted, ret, invalidAt, outOfRange]: Printer is the output     *)
(* buffer, kept as                                                         *)
(* the sequence of the non-empty strings appended to it (its text is their *)
(* concatenation, Str), ret is the NodePointer the last print/printEntity  *)
(* call returned, aborted records that printer_unreachable was called, and *)
(* invalidAt is a history field: the size of the buffer when setInvalid    *)
(* was first called on the object, -1 before.  outOfRange records that a   *)
(* child position at or beyond the child count of a node was read: the    *)
(* behaviour of the program is undefined from there on, nothing more is    *)
(* recorded in the buffer and the caller sees one of the possible outcomes.*)
(* Every member function of the class is an operator that takes the object *)
(* and returns the object after the call.                                  *)
(***************************************************************************)
EXTENDS Integers, Sequences, FiniteSets, TLC

VARIABLES
    pc,                          \* position of the caller of nodeToString
    root,                        \* argument root of the current invocation
    Printer,                     \* NodePrinter::Printer (DemanglerPrinter)
    Options,                     \* NodePrinter::Options
    SpecializationPrefixPrinted, \* NodePrinter::SpecializationPrefixPrinted
    isValid,                     \* NodePrinter::isValid
    aborted,                     \* std::abort() was reached
    options,                     \* argument options of the current invocation
    result,                      \* the string nodeToString returned
    memo,                        \* history: one earlier invocation and its result
    invalidAt,                   \* history: buffer size at the first setInvalid
    outOfRange,                  \* a child position beyond the children was read
    calls,                       \* concurrent callers: the frame of each call
    printers                     \* concurrent callers: the NodePrinter of each

\* the variables of the single caller
sequentialVars ==
    <<pc, root, options, Printer, Options, SpecializationPrefixPrinted,
      isValid, aborted, result, memo, invalidAt, outOfRange>>

\* the variables of the concurrent callers
concurrentVars == <<calls, printers>>

vars == <<pc, root, options, Printer, Options, SpecializationPrefixPrinted,
          isValid, aborted, result, memo, invalidAt, outOfRange, calls,
          printers>>

---------------------------------------------------------------------------
(* Bounds of the checked inputs.                                           *)

MaxDepth == 2
MaxIndex == 53
MaxStrLen == 3

---------------------------------------------------------------------------
(* Nodes.                                                                  *)

Node(kind, text, index, children) ==
    [kind |-> kind, text |-> text, bytes |-> <<>>, index |-> index,
     children |-> children]

\* index = NoIndex models a node without an index (hasIndex() false)
NoIndex == 0 - 1

N(kind, children) == Node(kind, "", NoIndex, children)
T(kind, text) == Node(kind, text, NoIndex, <<>>)
I(kind, index) == Node(kind, "", index, <<>>)
\* a text node whose text is given byte by byte
B(kind, bytes) ==
    [kind |-> kind, text |-> "", bytes |-> bytes, index |-> NoIndex,
     children |-> <<>>]

\* the null NodePointer
nullptr == Node("nullptr", "", NoIndex, <<>>)

getNumChildren(node) == Len(node.children)
getChild(node, i) == node.children[i + 1]
getFirstChild(node) == node.children[1]
hasChildren(node) == Len(node.children) # 0

STDLIB_NAME == "Swift"
MANGLING_MODULE_OBJC == "__C"

---------------------------------------------------------------------------
(* The output buffer and literal formatting.                               *)

RECURSIVE Str(_)
Str(buf) ==
    IF buf = <<>> THEN ""
    ELSE IF Len(buf) = 1 THEN buf[1]
    ELSE Str(SubSeq(buf, 1, Len(buf) \div 2))
             \o Str(SubSeq(buf, Len(buf) \div 2 + 1, Len(buf)))

RECURSIVE Size(_)
Size(buf) ==
    IF buf = <<>> THEN 0
    ELSE IF Len(buf) = 1 THEN Len(buf[1])
    ELSE Size(SubSeq(buf, 1, Len(buf) \div 2))
             + Size(SubSeq(buf, Len(buf) \div 2 + 1, Len(buf)))

\* DemanglerPrinter::operator<<(StringRef / char): Stream.append
append(buf, s) == IF s = "" THEN buf ELSE buf \o <<s>>

Digit == <<"0", "1", "2", "3", "4", "5", "6", "7", "8", "9">>

\* DemanglerPrinter::operator<<(unsigned long long): snprintf "%llu"
RECURSIVE Dec(_)
Dec(n) == IF n < 10 THEN Digit[n + 1] ELSE Dec(n \div 10) \o Digit[(n % 10) + 1]

\* DemanglerPrinter::operator<<(long long) / (int): snprintf "%lld"
SDec(n) == IF n < 0 THEN "-" \o Dec(0 - n) ELSE Dec(n)

Letter == <<"A", "B", "C", "D", "E", "F", "G", "H", "I", "J", "K", "L", "M",
            "N", "O", "P", "Q", "R", "S", "T", "U", "V", "W", "X", "Y", "Z">>

\* the letters of genericParameterName's do-while loop, for index
RECURSIVE genericParameterLetters(_)
genericParameterLetters(index) ==
    LET name == <<Letter[(index % 26) + 1]>>
    IN IF index \div 26 # 0
          THEN name \o genericParameterLetters(index \div 26)
          ELSE name

genericParameterName_NoDepth(depth, index) ==
    Str(genericParameterLetters(index))

genericParameterName_NoWrap(depth, index) ==
    Str(<<Letter[(index % 26) + 1]>> \o (IF depth # 0 THEN <<Dec(depth)>> ELSE <<>>))

\* Demangle::genericParameterName
genericParameterName(depth, index) ==
    Str(genericParameterLetters(index)
        \o (IF depth # 0 THEN <<Dec(depth)>> ELSE <<>>))

\* the characters of the bytes 0x20 .. 0x7E.  A TLA+ string cannot hold the
\* backquote (0x60): its entry is a stand-in and byte 0x60 is left out of
\* the inputs (Bytes below).
PrintableChar ==
    <<" ", "!", "\"", "#", "$", "%", "&", "'", "(", ")", "*", "+", ",", "-",
      ".", "/", "0", "1", "2", "3", "4", "5", "6", "7", "8", "9", ":", ";",
      "<", "=", ">", "?", "@", "A", "B", "C", "D", "E", "F", "G", "H", "I",
      "J", "K", "L", "M", "N", "O", "P", "Q", "R", "S", "T", "U", "V", "W",
      "X", "Y", "Z", "[", "\\", "]", "^", "_", "<0x60>", "a", "b", "c", "d", "e",
      "f", "g", "h", "i", "j", "k", "l", "m", "n", "o", "p", "q", "r", "s",
      "t", "u", "v", "w", "x", "y", "z", "{", "|", "}", "~">>

Hexdigit == <<"0", "1", "2", "3", "4", "5", "6", "7", "8", "9",
              "A", "B", "C", "D", "E", "F">>

QuotedByte_NoHex(c) ==
    CASE c = 92 -> <<"\\\\">>
      [] c = 9  -> <<"\\t">>
      [] c = 10 -> <<"\\n">>
      [] c = 13 -> <<"\\r">>
      [] c = 34 -> <<"\\\"">>
      [] c = 0  -> <<"\\0">>
      [] OTHER  -> IF c < 32 \/ c >= 127
                      THEN <<"\\x", Hexdigit[(c % 16) + 1]>>
                      ELSE <<PrintableChar[c - 31]>>

\* one iteration of the loop of operator<<(DemanglerPrinter &, QuotedString):
\* the pieces appended for the byte c
QuotedByte(c) ==
    CASE c = 92 -> <<"\\\\">>
      [] c = 9  -> <<"\\t">>
      [] c = 10 -> <<"\\n">>
      [] c = 13 -> <<"\\r">>
      [] c = 34 -> <<"\\\"">>
      [] c = 0  -> <<"\\0">>
      [] OTHER  -> IF c < 32 \/ c >= 127
                      THEN <<"\\x", Hexdigit[(c \div 16) + 1], Hexdigit[(c % 16) + 1]>>
                      ELSE <<PrintableChar[c - 31]>>

RECURSIVE QuotedBytes(_)
QuotedBytes(value) ==
    IF value = <<>> THEN <<>>
    ELSE QuotedByte(Head(value)) \o QuotedBytes(Tail(value))

\* operator<<(DemanglerPrinter &, const QuotedString &)
QuotedString(value) == <<"\"">> \o QuotedBytes(value) \o <<"\"">>

---------------------------------------------------------------------------
(* DemangleOptions and the NodePrinter object.                             *)

\* the options the modelled code reads, all enabled
DefaultOptions ==
    [QualifyEntities |-> TRUE, DisplayModuleNames |-> TRUE,
     DisplayStdlibModule |-> TRUE, DisplayObjCModule |-> TRUE,
     HidingCurrentModule |-> "", DisplayDebuggerGeneratedModule |-> TRUE,
     DisplayExtensionContexts |-> TRUE, ShowFunctionArgumentTypes |-> TRUE,
     ShowPrivateDiscriminators |-> TRUE, DisplayLocalNameContexts |-> TRUE,
     SynthesizeSugarOnTypes |-> TRUE, DisplayGenericSpecializations |-> TRUE,
     DisplayUnmangledSuffix |-> TRUE, DisplayEntityTypes |-> TRUE,
     PrintForTypeName |-> FALSE, DisplayWhereClauses |-> TRUE]

NodePrinter_KeepFlag(opts) ==
    [Printer |-> <<>>, Options |-> opts,
     SpecializationPrefixPrinted |-> SpecializationPrefixPrinted,
     isValid |-> TRUE, aborted |-> FALSE, ret |-> nullptr,
     invalidAt |-> 0 - 1, outOfRange |-> FALSE]

\* NodePrinter::NodePrinter(DemangleOptions) and the member initialisers
NodePrinter(opts) ==
    [Printer |-> <<>>, Options |-> opts,
     SpecializationPrefixPrinted |-> FALSE, isValid |-> TRUE,
     aborted |-> FALSE, ret |-> nullptr, invalidAt |-> 0 - 1,
     outOfRange |-> FALSE]

\* Printer << s
Out(P, s) ==
    IF P.aborted \/ P.outOfRange THEN P ELSE [P EXCEPT !.Printer = append(@, s)]

\* Printer << s1 << s2 ... for a sequence of pieces
RECURSIVE OutAll(_, _)
OutAll(P, pieces) ==
    IF pieces = <<>> THEN P ELSE OutAll(Out(P, Head(pieces)), Tail(pieces))

\* return n;
Ret(P, n) == [P EXCEPT !.ret = n]

\* NodePrinter::setInvalid
setInvalid(P) ==
    [P EXCEPT !.isValid = FALSE,
              !.invalidAt = IF @ < 0 THEN Size(P.Printer) ELSE @]

\* printer_unreachable: std::abort()
printer_unreachable(P) == [P EXCEPT !.aborted = TRUE]

\* Node::getChild(index) with index >= getNumChildren(): undefined behaviour
readOutOfRange(P) == [P EXCEPT !.outOfRange = TRUE]

\* the position of the first child of kind Kind (0 when there is none)
RECURSIVE findKind(_, _, _)
findKind(children, Kind, i) ==
    IF i > Len(children) THEN 0
    ELSE IF children[i].kind = Kind THEN i
    ELSE findKind(children, Kind, i + 1)

\* NodePrinter::getChildIf
getChildIf(node, Kind) ==
    LET i == findKind(node.children, Kind, 1)
    IN IF i = 0 THEN nullptr ELSE node.children[i]

isSwiftModule_AnyModule(node) == node.kind = "Module"

\* NodePrinter::isSwiftModule
isSwiftModule(node) == node.kind = "Module" /\ node.text = STDLIB_NAME

\* NodePrinter::isIdentifier
isIdentifier(node, desired) == node.kind = "Identifier" /\ node.text = desired

\* StringRef::startswith(LLDB_EXPRESSIONS_MODULE_NAME_PREFIX), on the module
\* names of the checked trees
startswithLLDBPrefix(text) == text \in {"__lldb_expr_0"}

\* NodePrinter::printContext
printContext(Context, P) ==
    IF ~P.Options.QualifyEntities THEN FALSE
    ELSE IF Context.kind = "Module" /\ Context.text = STDLIB_NAME
        THEN P.Options.DisplayStdlibModule
    ELSE IF Context.kind = "Module" /\ Context.text = MANGLING_MODULE_OBJC
        THEN P.Options.DisplayObjCModule
    ELSE IF Context.kind = "Module" /\ Context.text = P.Options.HidingCurrentModule
        THEN FALSE
    ELSE IF Context.kind = "Module" /\ startswithLLDBPrefix(Context.text)
        THEN P.Options.DisplayDebuggerGeneratedModule
    ELSE TRUE

\* isSimpleType: the kinds of the first case group (return true)
SimpleTypeKinds ==
    {"AssociatedType", "AssociatedTypeRef", "BoundGenericClass",
     "BoundGenericEnum", "BoundGenericStructure", "BoundGenericProtocol",
     "BoundGenericOtherNominalType", "BoundGenericTypeAlias",
     "BoundGenericFunction", "BuiltinTypeName", "Class",
     "DependentGenericType", "DependentMemberType",
     "DependentGenericParamType", "DynamicSelf", "Enum", "ErrorType",
     "ExistentialMetatype", "Metatype", "MetatypeRepresentation", "Module",
     "Tuple", "Protocol", "ProtocolSymbolicReference", "ReturnType",
     "SILBoxType", "SILBoxTypeWithLayout", "Structure", "OtherNominalType",
     "TupleElementName", "Type", "TypeAlias", "TypeList", "LabelList",
     "TypeSymbolicReference", "SugaredOptional", "SugaredArray",
     "SugaredDictionary", "SugaredParen"}

\* the kinds REF_STORAGE(Name, ...) expands to, one per entry of
\* swift/AST/ReferenceStorage.def
ReferenceStorageKinds == {"Weak", "Unowned", "Unmanaged"}

\* keywordOf(ReferenceOwnership::Name)
keywordOf ==
    [Weak |-> "weak", Unowned |-> "unowned", Unmanaged |-> "unowned(unsafe)"]

\* isSimpleType: the kinds of the last case group (return false), the
\* REF_STORAGE kinds among them
CompoundTypeKinds ==
    {"ProtocolListWithClass", "AccessorFunctionReference", "Allocator",
     "ArgumentTuple", "AssociatedConformanceDescriptor",
     "AssociatedTypeDescriptor", "AssociatedTypeMetadataAccessor",
     "AssociatedTypeWitnessTableAccessor", "AutoClosureType",
     "BaseConformanceDescriptor", "BaseWitnessTableAccessor", "ClangType",
     "ClassMetadataBaseOffset", "CFunctionPointer", "Constructor",
     "CoroutineContinuationPrototype", "CurryThunk", "DispatchThunk",
     "Deallocator", "DeclContext", "DefaultArgumentInitializer",
     "DefaultAssociatedTypeMetadataAccessor",
     "DefaultAssociatedConformanceAccessor", "DependentAssociatedTypeRef",
     "DependentGenericSignature", "DependentGenericParamCount",
     "DependentGenericConformanceRequirement",
     "DependentGenericLayoutRequirement",
     "DependentGenericSameTypeRequirement",
     "DependentPseudogenericSignature", "Destructor", "DidSet",
     "DifferentiableFunctionType", "EscapingDifferentiableFunctionType",
     "LinearFunctionType", "EscapingLinearFunctionType",
     "DirectMethodReferenceAttribute", "Directness", "DynamicAttribute",
     "EscapingAutoClosureType", "EscapingObjCBlock",
     "NoEscapeFunctionType", "ExplicitClosure", "Extension", "EnumCase",
     "FieldOffset", "FullObjCResilientClassStub", "FullTypeMetadata",
     "Function", "FunctionSignatureSpecialization",
     "FunctionSignatureSpecializationParam",
     "FunctionSignatureSpecializationReturn",
     "FunctionSignatureSpecializationParamKind",
     "FunctionSignatureSpecializationParamPayload", "FunctionType",
     "GenericProtocolWitnessTable",
     "GenericProtocolWitnessTableInstantiationFunction",
     "GenericPartialSpecialization",
     "GenericPartialSpecializationNotReAbstracted",
     "GenericSpecialization", "GenericSpecializationNotReAbstracted",
     "GenericSpecializationParam", "GenericSpecializationPrespecialized",
     "InlinedGenericFunction", "GenericTypeMetadataPattern", "Getter",
     "Global", "GlobalGetter", "Identifier", "Index", "IVarInitializer",
     "IVarDestroyer", "ImplDifferentiable", "ImplLinear", "ImplEscaping",
     "ImplConvention", "ImplDifferentiability", "ImplFunctionAttribute",
     "ImplFunctionConvention", "ImplFunctionConventionName",
     "ImplFunctionType", "ImplInvocationSubstitutions",
     "ImplPatternSubstitutions", "ImplicitClosure", "ImplParameter",
     "ImplResult", "ImplYield", "ImplErrorResult", "InOut",
     "InfixOperator", "Initializer", "PropertyWrapperBackingInitializer",
     "KeyPathGetterThunkHelper", "KeyPathSetterThunkHelper",
     "KeyPathEqualsThunkHelper", "KeyPathHashThunkHelper",
     "LazyProtocolWitnessTableAccessor",
     "LazyProtocolWitnessTableCacheVariable", "LocalDeclName",
     "MaterializeForSet", "MergedFunction", "Metaclass",
     "MethodDescriptor", "MethodLookupFunction", "ModifyAccessor",
     "NativeOwningAddressor", "NativeOwningMutableAddressor",
     "NativePinningAddressor", "NativePinningMutableAddressor",
     "NominalTypeDescriptor", "NonObjCAttribute", "Number",
     "ObjCAsyncCompletionHandlerImpl", "ObjCAttribute", "ObjCBlock",
     "ObjCMetadataUpdateFunction", "ObjCResilientClassStub",
     "OpaqueTypeDescriptor", "OpaqueTypeDescriptorAccessor",
     "OpaqueTypeDescriptorAccessorImpl", "OpaqueTypeDescriptorAccessorKey",
     "OpaqueTypeDescriptorAccessorVar", "Owned", "OwningAddressor",
     "OwningMutableAddressor", "PartialApplyForwarder",
     "PartialApplyObjCForwarder", "PostfixOperator", "PrefixOperator",
     "PrivateDeclName", "PropertyDescriptor", "ProtocolConformance",
     "ProtocolConformanceDescriptor", "MetadataInstantiationCache",
     "ProtocolDescriptor", "ProtocolRequirementsBaseDescriptor",
     "ProtocolSelfConformanceDescriptor", "ProtocolSelfConformanceWitness",
     "ProtocolSelfConformanceWitnessTable", "ProtocolWitness",
     "ProtocolWitnessTable", "ProtocolWitnessTableAccessor",
     "ProtocolWitnessTablePattern", "ReabstractionThunk",
     "ReabstractionThunkHelper", "ReabstractionThunkHelperWithSelf",
     "ReadAccessor", "RelatedEntityDeclName", "RetroactiveConformance",
     "Setter", "Shared", "SILBoxLayout", "SILBoxMutableField",
     "SILBoxImmutableField", "IsSerialized", "SpecializationPassID",
     "Static", "Subscript", "Suffix", "ThinFunctionType", "TupleElement",
     "TypeMangling", "TypeMetadata", "TypeMetadataAccessFunction",
     "TypeMetadataCompletionFunction", "TypeMetadataInstantiationCache",
     "TypeMetadataInstantiationFunction",
     "TypeMetadataSingletonInitializationCache",
     "TypeMetadataDemanglingCache", "TypeMetadataLazyCache",
     "UncurriedFunctionType", "UnknownIndex", "UnsafeAddressor",
     "UnsafeMutableAddressor", "ValueWitness", "ValueWitnessTable",
     "Variable", "VTableAttribute", "VTableThunk", "WillSet",
     "ReflectionMetadataBuiltinDescriptor",
     "ReflectionMetadataFieldDescriptor",
     "ReflectionMetadataAssocTypeDescriptor",
     "ReflectionMetadataSuperclassDescriptor",
     "ResilientProtocolWitnessTable", "GenericTypeParamDecl",
     "AsyncAnnotation", "ThrowsAnnotation", "EmptyList",
     "FirstElementMarker", "VariadicMarker", "OutlinedBridgedMethod",
     "OutlinedCopy", "OutlinedConsume", "OutlinedRetain",
     "OutlinedRelease", "OutlinedInitializeWithTake",
     "OutlinedInitializeWithCopy", "OutlinedAssignWithTake",
     "OutlinedAssignWithCopy", "OutlinedDestroy", "OutlinedVariable",
     "AssocTypePath", "ModuleDescriptor", "AnonymousDescriptor",
     "AssociatedTypeGenericParamRef", "ExtensionDescriptor",
     "AnonymousContext", "AnyProtocolConformanceList",
     "ConcreteProtocolConformance", "DependentAssociatedConformance",
     "DependentProtocolConformanceAssociated",
     "DependentProtocolConformanceInherited",
     "DependentProtocolConformanceRoot",
     "ProtocolConformanceRefInTypeModule",
     "ProtocolConformanceRefInProtocolModule",
     "ProtocolConformanceRefInOtherModule",
     "DynamicallyReplaceableFunctionKey",
     "DynamicallyReplaceableFunctionImpl",
     "DynamicallyReplaceableFunctionVar", "OpaqueType",
     "OpaqueTypeDescriptorSymbolicReference", "OpaqueReturnType",
     "OpaqueReturnTypeOf", "CanonicalSpecializedGenericMetaclass",
     "CanonicalSpecializedGenericTypeMetadataAccessFunction",
     "NoncanonicalSpecializedGenericTypeMetadata",
     "NoncanonicalSpecializedGenericTypeMetadataCache",
     "GlobalVariableOnceDeclList", "GlobalVariableOnceFunction",
     "GlobalVariableOnceToken",
     "CanonicalPrespecializedGenericTypeCachingOnceToken"}
    \cup ReferenceStorageKinds

isSimpleType_ProtocolListAlwaysSimple(node) ==
    CASE node.kind \in SimpleTypeKinds
              \cup {"ProtocolList", "ProtocolListWithAnyObject"} -> TRUE
      [] node.kind \in CompoundTypeKinds -> FALSE

\* NodePrinter::isSimpleType.  A kind of no case group reaches
\* printer_unreachable; no checked tree holds one.
isSimpleType(node) ==
    CASE node.kind \in SimpleTypeKinds -> TRUE
      [] node.kind = "ProtocolList" ->
            getNumChildren(getChild(node, 0)) <= 1
      [] node.kind = "ProtocolListWithAnyObject" ->
            getNumChildren(getChild(getChild(node, 0), 0)) = 0
      [] node.kind \in CompoundTypeKinds -> FALSE

RECURSIVE findSugar(_)
\* NodePrinter::findSugar; the result is the name of the SugarType
findSugar(node) ==
    IF getNumChildren(node) = 1 /\ node.kind = "Type"
        THEN findSugar(getChild(node, 0))
    ELSE IF getNumChildren(node) # 2 THEN "None"
    ELSE IF node.kind # "BoundGenericEnum" /\ node.kind # "BoundGenericStructure"
        THEN "None"
    ELSE
        LET unboundType == getChild(getChild(node, 0), 0)
            typeArgs == getChild(node, 1)
        IN IF node.kind = "BoundGenericEnum"
           THEN IF /\ isIdentifier(getChild(unboundType, 1), "Optional")
                   /\ getNumChildren(typeArgs) = 1
                   /\ isSwiftModule(getChild(unboundType, 0))
                   THEN "Optional"
                ELSE IF /\ isIdentifier(getChild(unboundType, 1),
                                        "ImplicitlyUnwrappedOptional")
                        /\ getNumChildren(typeArgs) = 1
                        /\ isSwiftModule(getChild(unboundType, 0))
                   THEN "ImplicitlyUnwrappedOptional"
                ELSE "None"
           ELSE IF /\ isIdentifier(getChild(unboundType, 1), "Array")
                   /\ getNumChildren(typeArgs) = 1
                   /\ isSwiftModule(getChild(unboundType, 0))
                   THEN "Array"
                ELSE IF /\ isIdentifier(getChild(unboundType, 1), "Dictionary")
                        /\ getNumChildren(typeArgs) = 2
                        /\ isSwiftModule(getChild(unboundType, 0))
                   THEN "Dictionary"
                ELSE "None"

\* the function-type kinds print hands to printFunctionType
FunctionTypeKinds ==
    {"FunctionType", "UncurriedFunctionType", "NoEscapeFunctionType",
     "AutoClosureType", "EscapingAutoClosureType", "ThinFunctionType",
     "CFunctionPointer", "ObjCBlock", "EscapingObjCBlock",
     "DifferentiableFunctionType", "EscapingDifferentiableFunctionType",
     "LinearFunctionType", "EscapingLinearFunctionType"}

\* the kinds print hands to printSpecializationPrefix
SpecializationKinds ==
    {"FunctionSignatureSpecialization", "GenericPartialSpecialization",
     "GenericPartialSpecializationNotReAbstracted", "GenericSpecialization",
     "GenericSpecializationPrespecialized",
     "GenericSpecializationNotReAbstracted", "InlinedGenericFunction"}

\* StringRef::contains(' ') on the ExtraName arguments print passes to
\* printEntity and printAbstractStorage: these are the ones holding a space
ExtraNamesWithSpace ==
    {"closure #", "implicit closure #", "variable initialization expression",
     "property wrapper backing initializer", "default argument "}

containsSpace(name) == name \in ExtraNamesWithSpace

isMultiWordName_IgnoreSpaces(ExtraName, LocalName, opts) ==
    LocalName /\ opts.DisplayLocalNameContexts

\* printEntity: the value of MultiWordName
isMultiWordName(ExtraName, LocalName, opts) ==
    IF LocalName /\ opts.DisplayLocalNameContexts THEN TRUE
    ELSE containsSpace(ExtraName)

\* needSpaceBeforeType
RECURSIVE needSpaceBeforeType(_)
needSpaceBeforeType(Type) ==
    CASE Type.kind = "Type" -> needSpaceBeforeType(getFirstChild(Type))
      [] Type.kind \in {"FunctionType", "NoEscapeFunctionType",
                        "UncurriedFunctionType", "DependentGenericType"} -> FALSE
      [] OTHER -> TRUE

\* isClassType
isClassType(node) == node.kind = "Class"

\* isExistentialType
isExistentialType(node) ==
    node.kind \in {"ExistentialMetatype", "ProtocolList",
                   "ProtocolListWithClass", "ProtocolListWithAnyObject"}

---------------------------------------------------------------------------
(* The member functions of NodePrinter.  Each statement takes the object   *)
(* left by the statement before it.                                        *)

\* if (c) Printer << s
OutIf(c, P, s) == IF c THEN Out(P, s) ELSE P

OutIfGrown_Always(P, Before, s) == Out(P, s)

\* if (Printer.getStringRef().size() != CurrentPos) Printer << s, where
\* CurrentPos is the size of the buffer of Before
OutIfGrown(P, Before, s) ==
    IF Size(P.Printer) # Size(Before.Printer) THEN Out(P, s) ELSE P

RECURSIVE print(_, _, _)
RECURSIVE printIf(_, _, _)
RECURSIVE printChildren(_, _, _)
RECURSIVE printBoundGenericNoSugar(_, _)
RECURSIVE printWithParens(_, _)
RECURSIVE printBoundGeneric(_, _)
RECURSIVE printFunctionParameters(_, _, _, _)
RECURSIVE printTupleParameters(_, _, _, _, _, _)
RECURSIVE printFunctionType(_, _, _)
RECURSIVE printSpecializationPrefix(_, _, _, _)
RECURSIVE printSpecializationChildren(_, _, _, _, _)
RECURSIVE printEntity(_, _, _, _, _, _, _, _)
RECURSIVE printEntityType(_, _, _, _)
RECURSIVE printSILBoxFields(_, _, _)
RECURSIVE printRequirements(_, _, _, _)
RECURSIVE transitionTo(_, _, _, _)
RECURSIVE printClosurePropTypes(_, _, _)
RECURSIVE printFunctionSigSpecializationParams(_, _, _)
RECURSIVE printImplFunctionTypeFrom(_, _, _, _, _, _)

\* if (c) print(node)
printIf(c, node, P) == IF c THEN print(node, FALSE, P) ELSE P

\* NodePrinter::printChildren(begin, end, sep) on the children from begin on;
\* sep = "" is the null separator
printChildren(children, sep, P) ==
    IF children = <<>> THEN P
    ELSE printChildren(Tail(children), sep,
             OutIf(Tail(children) # <<>>, print(Head(children), FALSE, P), sep))

printBoundGenericNoSugar_NoSeparator(node, P) ==
    IF getNumChildren(node) < 2 THEN P
    ELSE Out(printChildren(getChild(node, 1).children, "",
                 Out(print(getChild(node, 0), FALSE, P), "<")), ">")

\* NodePrinter::printBoundGenericNoSugar
printBoundGenericNoSugar(node, P) ==
    IF getNumChildren(node) < 2 THEN P
    ELSE Out(printChildren(getChild(node, 1).children, ", ",
                 Out(print(getChild(node, 0), FALSE, P), "<")), ">")

\* NodePrinter::printWithParens
printWithParens(type, P) ==
    OutIf(~isSimpleType(type),
          print(type, FALSE, OutIf(~isSimpleType(type), P, "(")), ")")

printSugar_AlwaysNone(sugarType, node, P) == printBoundGenericNoSugar(node, P)

\* printBoundGeneric: the switch on the SugarType
printSugar(sugarType, node, P) ==
    CASE sugarType = "None" -> printBoundGenericNoSugar(node, P)
      [] sugarType \in {"Optional", "ImplicitlyUnwrappedOptional"} ->
            Out(printWithParens(getChild(getChild(node, 1), 0), P),
                IF sugarType = "Optional" THEN "?" ELSE "!")
      [] sugarType = "Array" ->
            Out(print(getChild(getChild(node, 1), 0), FALSE, Out(P, "[")), "]")
      [] sugarType = "Dictionary" ->
            Out(print(getChild(getChild(node, 1), 1), FALSE,
                    Out(print(getChild(getChild(node, 1), 0), FALSE, Out(P, "[")),
                        " : ")), "]")

\* NodePrinter::printBoundGeneric
printBoundGeneric(node, P) ==
    IF getNumChildren(node) < 2 THEN P
    ELSE IF getNumChildren(node) # 2 THEN printBoundGenericNoSugar(node, P)
    ELSE IF ~P.Options.SynthesizeSugarOnTypes \/ node.kind = "BoundGenericClass"
        THEN printBoundGenericNoSugar(node, P)
    ELSE IF node.kind = "BoundGenericProtocol"
        THEN print(getChild(node, 0), FALSE,
                   Out(printChildren(getChild(node, 1).children, "", P), " as "))
    ELSE printSugar(findSugar(node), node, P)

\* printFunctionParameters: the lambda getLabelFor
getLabelFor(LabelList, Index) ==
    IF getChild(LabelList, Index).kind = "Identifier"
        THEN getChild(LabelList, Index).text
        ELSE "_"

\* printFunctionParameters: the label part of the lambda run on each element
printParameterLabel(LabelList, Param, ParamIndex, hasLabels, showTypes, P) ==
    IF hasLabels /\ ~(ParamIndex < getNumChildren(LabelList))
        THEN readOutOfRange(P)
    ELSE IF hasLabels THEN Out(Out(P, getLabelFor(LabelList, ParamIndex)), ":")
    ELSE IF ~showTypes
        THEN IF getChildIf(Param, "TupleElementName") # nullptr
                THEN Out(Out(P, getChildIf(Param, "TupleElementName").text), ":")
                ELSE Out(P, "_:")
    ELSE P

printTupleParameters_AlwaysComma(LabelList, params, ParamIndex, hasLabels, showTypes, P) ==
    IF params = <<>> THEN P
    ELSE printTupleParameters(LabelList, Tail(params), ParamIndex + 1,
             hasLabels, showTypes,
             OutIf(Tail(params) # <<>>,
                   printIf(showTypes, Head(params),
                       OutIf(hasLabels /\ showTypes,
                             printParameterLabel(LabelList, Head(params),
                                 ParamIndex, hasLabels, showTypes, P),
                             " ")),
                   ", "))

\* printFunctionParameters: llvm::interleave over the tuple's elements, from
\* the element at ParamIndex on
printTupleParameters(LabelList, params, ParamIndex, hasLabels, showTypes, P) ==
    IF params = <<>> THEN P
    ELSE printTupleParameters(LabelList, Tail(params), ParamIndex + 1,
             hasLabels, showTypes,
             OutIf(Tail(params) # <<>>,
                   printIf(showTypes, Head(params),
                       OutIf(hasLabels /\ showTypes,
                             printParameterLabel(LabelList, Head(params),
                                 ParamIndex, hasLabels, showTypes, P),
                             " ")),
                   IF showTypes THEN ", " ELSE ""))

\* NodePrinter::printFunctionParameters
printFunctionParameters(LabelList, ParameterType, showTypes, P) ==
    IF ParameterType.kind # "ArgumentTuple" THEN setInvalid(P)
    ELSE IF getFirstChild(getFirstChild(ParameterType)).kind # "Tuple"
        THEN IF showTypes
                THEN Out(print(getFirstChild(getFirstChild(ParameterType)), FALSE,
                               Out(P, "(")), ")")
                ELSE Out(P, "(_:)")
    ELSE Out(printTupleParameters(LabelList,
                 getFirstChild(getFirstChild(ParameterType)).children, 0,
                 LabelList # nullptr /\ getNumChildren(LabelList) > 0,
                 showTypes, Out(P, "(")), ")")

\* printFunctionType: the lambda printConventionWithMangledCType
printConventionWithMangledCType(node, convention, P) ==
    Out(IF getFirstChild(node).kind = "ClangType"
           THEN Out(print(getFirstChild(node), FALSE,
                          Out(Out(Out(P, "@convention("), convention),
                              ", mangledCType: \"")), "\"")
           ELSE Out(Out(P, "@convention("), convention),
        ") ")

\* printFunctionType: the switch on the kind (a kind of no case prints
\* nothing once assertions are compiled out)
printFunctionTypeAttributes(node, P) ==
    CASE node.kind \in {"FunctionType", "UncurriedFunctionType",
                        "NoEscapeFunctionType"} -> P
      [] node.kind \in {"AutoClosureType", "EscapingAutoClosureType"} ->
            Out(P, "@autoclosure ")
      [] node.kind = "ThinFunctionType" -> Out(P, "@convention(thin) ")
      [] node.kind = "CFunctionPointer" ->
            printConventionWithMangledCType(node, "c", P)
      [] node.kind = "EscapingObjCBlock" ->
            printConventionWithMangledCType(node, "block", Out(P, "@escaping "))
      [] node.kind = "ObjCBlock" ->
            printConventionWithMangledCType(node, "block", P)
      [] node.kind = "DifferentiableFunctionType" -> Out(P, "@differentiable ")
      [] node.kind = "EscapingDifferentiableFunctionType" ->
            Out(P, "@escaping @differentiable ")
      [] node.kind = "LinearFunctionType" -> Out(P, "@differentiable(linear) ")
      [] node.kind = "EscapingLinearFunctionType" ->
            Out(P, "@escaping @differentiable(linear) ")
      [] OTHER -> P

printFunctionTypeFrom_ThrowsFirst(LabelList, node, startIndex, isAsync, isThrows, P) ==
    IF ~(startIndex + 1 < getNumChildren(node))
    THEN readOutOfRange(P)
    ELSE print(getChild(node, startIndex + 1), FALSE,
               OutIf(isAsync,
                     OutIf(isThrows,
                           printFunctionParameters(LabelList,
                               getChild(node, startIndex),
                               P.Options.ShowFunctionArgumentTypes, P),
                           " throws"),
                     " async"))

\* printFunctionType: the statements from printFunctionParameters on, with
\* the values of startIndex, isAsync and isThrows
printFunctionTypeFrom(LabelList, node, startIndex, isAsync, isThrows, P) ==
    IF ~P.Options.ShowFunctionArgumentTypes
    THEN printFunctionParameters(LabelList, getChild(node, startIndex), FALSE, P)
    ELSE IF ~(startIndex + 1 < getNumChildren(node))
    THEN readOutOfRange(
             OutIf(isThrows,
                   OutIf(isAsync,
                         printFunctionParameters(LabelList,
                             getChild(node, startIndex), TRUE, P),
                         " async"),
                   " throws"))
    ELSE print(getChild(node, startIndex + 1), FALSE,
               OutIf(isThrows,
                     OutIf(isAsync,
                           printFunctionParameters(LabelList,
                               getChild(node, startIndex), TRUE, P),
                           " async"),
                     " throws"))

\* printFunctionType: startIndex after the ClangType and ThrowsAnnotation tests
startAfterClangType(node) == IF getChild(node, 0).kind = "ClangType" THEN 1 ELSE 0
hasThrows(node) == getChild(node, startAfterClangType(node)).kind = "ThrowsAnnotation"
startAfterThrows(node) ==
    IF hasThrows(node) THEN startAfterClangType(node) + 1
    ELSE startAfterClangType(node)
hasAsync(node) == getChild(node, startAfterThrows(node)).kind = "AsyncAnnotation"
startAfterAsync(node) ==
    IF hasAsync(node) THEN startAfterThrows(node) + 1 ELSE startAfterThrows(node)

\* NodePrinter::printFunctionType
printFunctionType(LabelList, node, P) ==
    IF getNumChildren(node) < 2 \/ getNumChildren(node) > 5 THEN setInvalid(P)
    ELSE IF ~(startAfterThrows(node) < getNumChildren(node))
    THEN readOutOfRange(printFunctionTypeAttributes(node, P))
    ELSE IF ~(startAfterAsync(node) < getNumChildren(node))
    THEN readOutOfRange(printFunctionTypeAttributes(node, P))
    ELSE printFunctionTypeFrom(LabelList, node, startAfterAsync(node),
                               hasAsync(node), hasThrows(node),
                               printFunctionTypeAttributes(node, P))

\* enum class FunctionSigSpecializationParamKind
FunctionSigSpecializationParamKind ==
    [ConstantPropFunction |-> 0, ConstantPropGlobal |-> 1,
     ConstantPropInteger |-> 2, ConstantPropFloat |-> 3,
     ConstantPropString |-> 4, ClosureProp |-> 5, BoxToValue |-> 6,
     BoxToStack |-> 7, Dead |-> 64, OwnedToGuaranteed |-> 128, SROA |-> 256,
     GuaranteedToOwned |-> 512, ExistentialToGeneric |-> 1024]

\* raw & uint64_t(FunctionSigSpecializationParamKind::flag)
hasFlag(raw, flag) ==
    raw >= 0 /\ (raw \div FunctionSigSpecializationParamKind[flag]) % 2 = 1

\* print, FunctionSignatureSpecializationParamKind: the flags tested before
\* the flag at place n of the tests, in the order of the tests
OptionSetFlags ==
    <<"ExistentialToGeneric", "Dead", "OwnedToGuaranteed", "GuaranteedToOwned",
      "SROA">>

\* print, FunctionSignatureSpecializationParamKind: printedOptionSet after the
\* first n tests
printedOptionSet(raw, n) ==
    \E i \in 1..n : hasFlag(raw, OptionSetFlags[i])

\* print, FunctionSignatureSpecializationParamKind: the test of the flag at
\* place n, which prints name
printOptionFlag(raw, n, name, P) ==
    OutIf(hasFlag(raw, OptionSetFlags[n]),
          OutIf(hasFlag(raw, OptionSetFlags[n]) /\ printedOptionSet(raw, n - 1),
                P, " and "), name)

\* print, FunctionSignatureSpecializationParamKind: the switch
printParamKindSwitch(raw, P) ==
    CASE raw = FunctionSigSpecializationParamKind.BoxToValue ->
            Out(P, "Value Promoted from Box")
      [] raw = FunctionSigSpecializationParamKind.BoxToStack ->
            Out(P, "Stack Promoted from Box")
      [] raw = FunctionSigSpecializationParamKind.ConstantPropFunction ->
            Out(P, "Constant Propagated Function")
      [] raw = FunctionSigSpecializationParamKind.ConstantPropGlobal ->
            Out(P, "Constant Propagated Global")
      [] raw = FunctionSigSpecializationParamKind.ConstantPropInteger ->
            Out(P, "Constant Propagated Integer")
      [] raw = FunctionSigSpecializationParamKind.ConstantPropFloat ->
            Out(P, "Constant Propagated Float")
      [] raw = FunctionSigSpecializationParamKind.ConstantPropString ->
            Out(P, "Constant Propagated String")
      [] raw = FunctionSigSpecializationParamKind.ClosureProp ->
            Out(P, "Closure Propagated")
      [] raw \in {FunctionSigSpecializationParamKind[f] :
                     f \in {"ExistentialToGeneric", "Dead", "OwnedToGuaranteed",
                            "GuaranteedToOwned", "SROA"}} ->
            printer_unreachable(P)
      [] OTHER -> P

printParamKind_SwitchFirst(raw, P) ==
    IF raw % 64 < 8 THEN printParamKindSwitch(raw % 64, P)
    ELSE printOptionFlag(raw, 5, "Exploded",
             printOptionFlag(raw, 4, "Guaranteed To Owned",
                 printOptionFlag(raw, 3, "Owned To Guaranteed",
                     printOptionFlag(raw, 2, "Dead",
                         printOptionFlag(raw, 1,
                             "Existential To Protocol Constrained Generic",
                             P)))))

\* print, case FunctionSignatureSpecializationParamKind
printParamKind(raw, P) ==
    IF printedOptionSet(raw, 5)
    THEN printOptionFlag(raw, 5, "Exploded",
             printOptionFlag(raw, 4, "Guaranteed To Owned",
                 printOptionFlag(raw, 3, "Owned To Guaranteed",
                     printOptionFlag(raw, 2, "Dead",
                         printOptionFlag(raw, 1,
                             "Existential To Protocol Constrained Generic",
                             P)))))
    ELSE printParamKindSwitch(raw, P)

\* demangleSymbolAsString: the text of a mangled name, "" for any other text
demangleSymbolAsString(text) ==
    IF text = "$s1fyyF" THEN "f() -> ()" ELSE ""

\* printFunctionSigSpecializationParams, ClosureProp: the value of Idx after
\* the loop over the Type children from Idx on
RECURSIVE closurePropEnd(_, _)
closurePropEnd(node, Idx) ==
    IF Idx < getNumChildren(node) /\ getChild(node, Idx).kind = "Type"
        THEN closurePropEnd(node, Idx + 1) ELSE Idx

\* printFunctionSigSpecializationParams, ClosureProp: the loop over the Type
\* children from Idx on
printClosurePropTypes(node, Idx, P) ==
    IF ~(Idx < getNumChildren(node)) THEN P
    ELSE IF getChild(node, Idx).kind # "Type" THEN P
    ELSE printClosurePropTypes(node, Idx + 1,
             OutIf(Idx + 1 < getNumChildren(node)
                       /\ getChild(node, Idx + 1).text # "",
                   print(getChild(node, Idx), FALSE, P), ", "))

\* printFunctionSigSpecializationParams: the number of children that the
\* case of the tag V reads with getChild(Idx++) before any loop
fixedChildren(V) ==
    CASE V \in {FunctionSigSpecializationParamKind.ConstantPropFunction,
                FunctionSigSpecializationParamKind.ConstantPropGlobal,
                FunctionSigSpecializationParamKind.ConstantPropInteger,
                FunctionSigSpecializationParamKind.ConstantPropFloat,
                FunctionSigSpecializationParamKind.ClosureProp} -> 2
      [] V = FunctionSigSpecializationParamKind.ConstantPropString -> 3
      [] OTHER -> 1

nextIdx_FixedArity(node, Idx) ==
    Idx + fixedChildren(getChild(node, Idx).index)

\* printFunctionSigSpecializationParams: the value of Idx after the iteration
\* that starts at Idx
nextIdx(node, Idx) ==
    IF getChild(node, Idx).index
           = FunctionSigSpecializationParamKind.ClosureProp
          /\ Idx + 2 <= getNumChildren(node)
        THEN closurePropEnd(node, Idx + 2)
        ELSE Idx + fixedChildren(getChild(node, Idx).index)

\* printFunctionSigSpecializationParams: the text of the second child of a
\* ConstantPropFunction or ConstantPropGlobal, demangled if it can be
demangledOrText(text) ==
    IF demangleSymbolAsString(text) = "" THEN text
    ELSE demangleSymbolAsString(text)

\* printFunctionSigSpecializationParams: one iteration of the loop, the case
\* of the tag V, all its children being there
printFunctionSigSpecializationParam(node, Idx, V, P) ==
    CASE V \in {FunctionSigSpecializationParamKind.ConstantPropFunction,
                FunctionSigSpecializationParamKind.ConstantPropGlobal} ->
            Out(Out(Out(print(getChild(node, Idx), FALSE, Out(P, "[")), " : "),
                    demangledOrText(getChild(node, Idx + 1).text)), "]")
      [] V \in {FunctionSigSpecializationParamKind.ConstantPropInteger,
                FunctionSigSpecializationParamKind.ConstantPropFloat} ->
            Out(print(getChild(node, Idx + 1), FALSE,
                      Out(print(getChild(node, Idx), FALSE, Out(P, "[")),
                          " : ")), "]")
      [] V = FunctionSigSpecializationParamKind.ConstantPropString ->
            Out(Out(print(getChild(node, Idx + 2), FALSE,
                          Out(print(getChild(node, Idx + 1), FALSE,
                                    Out(print(getChild(node, Idx), FALSE,
                                              Out(P, "[")), " : ")), "'")),
                    "'"), "]")
      [] V = FunctionSigSpecializationParamKind.ClosureProp ->
            Out(printClosurePropTypes(node, Idx + 2,
                    Out(print(getChild(node, Idx + 1), FALSE,
                              Out(print(getChild(node, Idx), FALSE,
                                        Out(P, "[")), " : ")),
                        ", Argument Types : [")), "]")
      [] OTHER -> print(getChild(node, Idx), FALSE, P)

\* NodePrinter::printFunctionSigSpecializationParams: the loop from Idx on
printFunctionSigSpecializationParams(node, Idx, P) ==
    IF ~(Idx < getNumChildren(node)) THEN P
    ELSE IF Idx + fixedChildren(getChild(node, Idx).index) > getNumChildren(node)
    THEN readOutOfRange(P)
    ELSE printFunctionSigSpecializationParams(node, nextIdx(node, Idx),
             printFunctionSigSpecializationParam(node, Idx,
                 getChild(node, Idx).index, P))

printSpecializationChildren_NothingSkipped(children, Separator, argNum, ParamPrefix, P) ==
    IF children = <<>> THEN P
    ELSE IF Head(children).kind \in {"FunctionSignatureSpecializationParam",
                                     "FunctionSignatureSpecializationReturn"}
    THEN printSpecializationChildren(Tail(children), ", ", argNum + 1,
             ParamPrefix,
             printFunctionSigSpecializationParams(Head(children), 0,
                 Out(Out(Out(Out(P, Separator), "Arg["), SDec(argNum)), "] = ")))
    ELSE printSpecializationChildren(Tail(children), ", ", argNum + 1,
             ParamPrefix, print(Head(children), FALSE, Out(P, Separator)))

\* printSpecializationPrefix: the loop over the children from child on, with
\* the loop's Separator and argNum
printSpecializationChildren(children, Separator, argNum, ParamPrefix, P) ==
    IF children = <<>> THEN P
    ELSE
        LET child == Head(children)
            rest == Tail(children)
        IN CASE child.kind = "SpecializationPassID" ->
                   printSpecializationChildren(rest, Separator, argNum,
                                               ParamPrefix, P)
             [] child.kind = "IsSerialized" ->
                   printSpecializationChildren(rest, ", ", argNum, ParamPrefix,
                       print(child, FALSE, Out(P, Separator)))
             [] OTHER ->
                   IF hasChildren(child)
                   THEN LET p1 == Out(Out(P, Separator), ParamPrefix)
                            p2 == CASE child.kind =
                                        "FunctionSignatureSpecializationParam" ->
                                       printFunctionSigSpecializationParams(
                                           child, 0,
                                           Out(Out(Out(p1, "Arg["),
                                                   SDec(argNum)), "] = "))
                                    [] child.kind =
                                        "FunctionSignatureSpecializationReturn" ->
                                       printFunctionSigSpecializationParams(
                                           child, 0, Out(p1, "Return = "))
                                    [] OTHER -> print(child, FALSE, p1)
                        IN printSpecializationChildren(rest, ", ", argNum + 1,
                                                       ParamPrefix, p2)
                   ELSE printSpecializationChildren(rest, Separator, argNum + 1,
                                                    ParamPrefix, P)

printSpecializationPrefix_NoFlag(node, Description, ParamPrefix, P) ==
    IF ~P.Options.DisplayGenericSpecializations
    THEN Out(P, "specialized ")
    ELSE LET p1 == Out(Out(P, Description), " <")
             p2 == printSpecializationChildren(node.children, "", 0, ParamPrefix,
                                               p1)
         IN Out(p2, "> of ")

\* NodePrinter::printSpecializationPrefix
printSpecializationPrefix(node, Description, ParamPrefix, P) ==
    IF ~P.Options.DisplayGenericSpecializations
    THEN IF ~P.SpecializationPrefixPrinted
            THEN [Out(P, "specialized ") EXCEPT !.SpecializationPrefixPrinted = TRUE]
            ELSE P
    ELSE LET p1 == Out(Out(P, Description), " <")
             p2 == printSpecializationChildren(node.children, "", 0, ParamPrefix,
                                               p1)
         IN Out(p2, "> of ")

\* NodePrinter::printEntityType
printEntityType(Entity, type, genericFunctionTypeList, P) ==
    IF getChildIf(Entity, "LabelList") # nullptr \/ genericFunctionTypeList # nullptr
    THEN printFunctionType(getChildIf(Entity, "LabelList"),
             IF type.kind = "DependentGenericType"
                THEN getFirstChild(getChild(type, 1)) ELSE type,
             OutIf(type.kind = "DependentGenericType"
                       /\ needSpaceBeforeType(getChild(type, 1)),
                   printIf(type.kind = "DependentGenericType"
                               /\ genericFunctionTypeList = nullptr,
                           getChild(type, 0),
                           IF genericFunctionTypeList # nullptr
                              THEN Out(printChildren(
                                           genericFunctionTypeList.children, ", ",
                                           Out(P, "<")), ">")
                              ELSE P),
                   " "))
    ELSE print(type, FALSE, P)

\* printEntity: the loop that descends through DependentGenericType
RECURSIVE underlyingType(_)
underlyingType(t) ==
    IF t.kind = "DependentGenericType"
        THEN underlyingType(getChild(getChild(t, 1), 0))
        ELSE t

\* printEntity: the entity kinds whose postfix context follows " of "
InitializerKinds ==
    {"DefaultArgumentInitializer", "Initializer",
     "PropertyWrapperBackingInitializer"}

\* printEntity: the context, printed as a prefix or kept for the suffix; the
\* ret field of the result is PostfixContext
printEntityContext(Context, MultiWordName, P) ==
    IF ~printContext(Context, P) THEN Ret(P, nullptr)
    ELSE IF MultiWordName THEN Ret(P, Context)
    ELSE OutIfGrown(print(Context, TRUE, P), P, ".")

\* printEntity: the name proper, OverwriteName or the Name and PrivateName
\* children
printEntityNameProper(Entity, OverwriteName, P) ==
    IF OverwriteName # "" THEN Out(P, OverwriteName)
    ELSE printIf(getChildIf(Entity, "PrivateDeclName") # nullptr,
                 getChildIf(Entity, "PrivateDeclName"),
                 printIf(getChild(Entity, 1).kind # "PrivateDeclName",
                         getChild(Entity, 1), P))

\* printEntity: the name proper and the '.' that follows it when something was
\* printed and an ExtraName is still to come
printEntityNameAndDot(Entity, OverwriteName, ExtraName, P) ==
    IF ExtraName # ""
        THEN OutIfGrown(printEntityNameProper(Entity, OverwriteName, P), P, ".")
        ELSE printEntityNameProper(Entity, OverwriteName, P)

\* printEntity: the block under if (hasName || !OverwriteName.empty())
printEntityName(Entity, hasName, ExtraName, MultiWordName, OverwriteName, P) ==
    IF ~(hasName \/ OverwriteName # "") THEN P
    ELSE IF ExtraName # "" /\ MultiWordName
        THEN printEntityNameAndDot(Entity, OverwriteName, "",
                                   Out(Out(P, ExtraName), " of "))
    ELSE printEntityNameAndDot(Entity, OverwriteName, ExtraName, P)

\* printEntity: the ExtraName as the name block leaves it
remainingExtraName(hasName, ExtraName, MultiWordName, OverwriteName) ==
    IF (hasName \/ OverwriteName # "") /\ ExtraName # "" /\ MultiWordName
        THEN "" ELSE ExtraName

\* printEntity: the block under if (!ExtraName.empty())
printEntityExtra(ExtraName, ExtraIndex, P) ==
    OutIf(ExtraName # "" /\ ExtraIndex >= 0,
          OutIf(ExtraName # "", P, ExtraName), SDec(ExtraIndex))

effectiveTypePrinting_NeverDemoted(TypePr, type) == TypePr

\* printEntity: TypePr after the FunctionStyle test on the type
effectiveTypePrinting(TypePr, type) ==
    IF /\ TypePr = "FunctionStyle"
       /\ underlyingType(type).kind \notin
              {"FunctionType", "NoEscapeFunctionType", "UncurriedFunctionType",
               "CFunctionPointer", "ThinFunctionType"}
        THEN "WithColon" ELSE TypePr

\* printEntity: the block under if (TypePr != TypePrinting::NoType), once the
\* Type child is known to exist
printEntityTyped(Entity, TypePr, MultiWordName, genericFunctionTypeList, type, P) ==
    IF effectiveTypePrinting(TypePr, type) = "WithColon"
    THEN IF P.Options.DisplayEntityTypes
            THEN printEntityType(Entity, type, genericFunctionTypeList,
                                 Out(P, " : "))
            ELSE P
    ELSE printEntityType(Entity, type, genericFunctionTypeList,
                         OutIf(MultiWordName \/ needSpaceBeforeType(type), P, " "))

printEntityPostfix_IgnoreLocalName(Entity, asPrefixContext, LocalName, PostfixContext, P) ==
    IF ~asPrefixContext /\ PostfixContext # nullptr
    THEN Ret(print(PostfixContext, FALSE,
                   Out(P, IF Entity.kind \in InitializerKinds
                             THEN " of " ELSE " in ")), nullptr)
    ELSE Ret(P, PostfixContext)

\* printEntity: the left-over context in suffix form, and the value returned
printEntityPostfix(Entity, asPrefixContext, LocalName, PostfixContext, P) ==
    IF /\ ~asPrefixContext
       /\ PostfixContext # nullptr
       /\ (~LocalName \/ P.Options.DisplayLocalNameContexts)
    THEN Ret(print(PostfixContext, FALSE,
                   Out(P, IF Entity.kind \in InitializerKinds
                             THEN " of " ELSE " in ")), nullptr)
    ELSE Ret(P, PostfixContext)

\* printEntity: the name, the ExtraName and ExtraIndex
printEntityNames(Entity, hasName, ExtraName, ExtraIndex, MultiWordName, OverwriteName, P) ==
    printEntityExtra(
        remainingExtraName(hasName, ExtraName, MultiWordName, OverwriteName),
        ExtraIndex,
        printEntityName(Entity, hasName, ExtraName, MultiWordName, OverwriteName,
                        P))

\* printEntity: the statements after the context; C is the object the context
\* left, C.ret is PostfixContext
printEntityAfterContext(Entity, genericFunctionTypeList, asPrefixContext, TypePr, hasName, ExtraName, ExtraIndex, OverwriteName, LocalName, MultiWordName, C) ==
    IF TypePr = "NoType"
    THEN printEntityPostfix(Entity, asPrefixContext, LocalName, C.ret,
             printEntityNames(Entity, hasName, ExtraName, ExtraIndex,
                              MultiWordName, OverwriteName, C))
    ELSE IF getChildIf(Entity, "Type") = nullptr
    THEN Ret(setInvalid(printEntityNames(Entity, hasName, ExtraName, ExtraIndex,
                                         MultiWordName, OverwriteName, C)),
             nullptr)
    ELSE printEntityPostfix(Entity, asPrefixContext, LocalName, C.ret,
             printEntityTyped(Entity, TypePr, MultiWordName,
                 genericFunctionTypeList,
                 getChild(getChildIf(Entity, "Type"), 0),
                 printEntityNames(Entity, hasName, ExtraName, ExtraIndex,
                                  MultiWordName, OverwriteName, C)))

\* printEntity: the statements after the BoundGenericFunction test
printEntityOf(Entity, genericFunctionTypeList, asPrefixContext, TypePr, hasName, ExtraName, ExtraIndex, OverwriteName, LocalName, P) ==
    IF asPrefixContext
          /\ (TypePr # "NoType" \/ isMultiWordName(ExtraName, LocalName, P.Options))
    THEN Ret(P, Entity)
    ELSE printEntityAfterContext(Entity, genericFunctionTypeList, asPrefixContext,
             TypePr, hasName, ExtraName, ExtraIndex, OverwriteName, LocalName,
             isMultiWordName(ExtraName, LocalName, P.Options),
             printEntityContext(getChild(Entity, 0),
                 isMultiWordName(ExtraName, LocalName, P.Options), P))

\* printEntity: LocalName
isLocalName(Entity, hasName) ==
    hasName /\ getChild(Entity, 1).kind = "LocalDeclName"

\* NodePrinter::printEntity.  TypePr is the name of the TypePrinting value.
printEntity(Entity, asPrefixContext, TypePr, hasName, ExtraName, ExtraIndex, OverwriteName, P) ==
    IF Entity.kind = "BoundGenericFunction"
    THEN printEntityOf(getFirstChild(Entity), getChild(Entity, 1),
             asPrefixContext, TypePr, hasName, ExtraName, ExtraIndex,
             OverwriteName, isLocalName(getFirstChild(Entity), hasName), P)
    ELSE printEntityOf(Entity, nullptr, asPrefixContext, TypePr, hasName,
             ExtraName, ExtraIndex, OverwriteName, isLocalName(Entity, hasName), P)

\* NodePrinter::printAbstractStorage
printAbstractStorage(node, asPrefixContent, ExtraName, P) ==
    CASE node.kind = "Variable" ->
            printEntity(node, asPrefixContent, "WithColon", TRUE, ExtraName,
                        0 - 1, "", P)
      [] node.kind = "Subscript" ->
            printEntity(node, asPrefixContent, "WithColon", FALSE, ExtraName,
                        0 - 1, "subscript", P)
      [] OTHER -> printer_unreachable(P)

\* Printer << s for each s of the non-empty pieces, in order
OutPieces(P, pieces) ==
    IF P.aborted \/ P.outOfRange THEN P
    ELSE [P EXCEPT !.Printer = @ \o pieces]

\* print, DependentGenericSignature: what the iterations of the loop over
\* index from 0 to last print, one after the other: before every index but
\* 0 the separator, then "..." for an index of 128 or more, the name of the
\* parameter otherwise
genericParameterPieces(depth, last) ==
    [k \in 1..(2 * last + 1) |->
        IF k % 2 = 0 THEN ", "
        ELSE IF k \div 2 >= 128 THEN "..."
        ELSE genericParameterName(depth, k \div 2)]

printGenericParameters_NoLimit(count, depth, P) ==
    OutPieces(P, [k \in 1..(2 * count - 1) |->
                  IF k % 2 = 0 THEN ", "
                  ELSE genericParameterName(depth, k \div 2)])

\* print, DependentGenericSignature: the loop over index, which is left
\* after index count - 1 and after the first index of 128 or more
printGenericParameters(count, depth, P) ==
    OutPieces(P, genericParameterPieces(depth,
                  (IF count > 128 THEN 129 ELSE count) - 1))

\* print, DependentGenericSignature: the value of depth after the first loop,
\* the number of leading DependentGenericParamCount children
RECURSIVE numParamCounts(_, _)
numParamCounts(children, depth) ==
    IF depth < Len(children)
          /\ children[depth + 1].kind = "DependentGenericParamCount"
        THEN numParamCounts(children, depth + 1)
        ELSE depth

\* print, DependentGenericSignature: the loop over depth, from depth to end
RECURSIVE printGenericDepths(_, _, _, _)
printGenericDepths(children, depth, end, P) ==
    IF depth >= end THEN P
    ELSE printGenericDepths(children, depth + 1, end,
             printGenericParameters(children[depth + 1].index, depth,
                                    OutIf(depth # 0, P, "><")))

\* print, DependentGenericSignature: the loop over the requirements from i on
printRequirements(children, i, depth, P) ==
    IF i >= Len(children) THEN P
    ELSE printRequirements(children, i + 1, depth,
             print(children[i + 1], FALSE, OutIf(i > depth, P, ", ")))

\* print, SILBoxLayout: the loop over the fields from i on
printSILBoxFields(fields, i, P) ==
    IF i >= Len(fields) THEN P
    ELSE printSILBoxFields(fields, i + 1,
             print(fields[i + 1], FALSE, Out(OutIf(i > 0, P, ","), " ")))

\* printImplFunctionType: enum State
State_Attrs == 0
State_Inputs == 1
State_Results == 2

\* printImplFunctionType: the kinds printed in state Results
ImplResultKinds == {"ImplResult", "ImplYield", "ImplErrorResult"}

\* printImplFunctionType: the lambda transitionTo, from curState on
transitionTo(curState, newState, patternSubs, P) ==
    IF curState = newState THEN P
    ELSE IF curState = State_Attrs
    THEN transitionTo(State_Inputs, newState, patternSubs,
             Out(IF patternSubs # nullptr
                    THEN Out(print(getChild(patternSubs, 0), FALSE,
                                   Out(P, "@substituted ")), " ")
                    ELSE P, "("))
    ELSE IF curState = State_Inputs
    THEN transitionTo(State_Results, newState, patternSubs, Out(P, ") -> ("))
    ELSE printer_unreachable(P)

\* printImplFunctionType: " for <", the children of a child of the captured
\* substitutions, '>'
printImplSubstitutions(subs, i, P) ==
    IF subs = nullptr THEN P
    ELSE Out(printChildren(getChild(subs, i).children, "", Out(P, " for <")),
             ">")

\* printImplFunctionType: the statements after the loop over the children
printImplFunctionTypeEnd(curState, patternSubs, invocationSubs, P) ==
    printImplSubstitutions(invocationSubs, 0,
        printImplSubstitutions(patternSubs, 1,
            Out(transitionTo(curState, State_Results, patternSubs, P), ")")))

printImplFunctionTypeFrom_SubstitutionsInline(fn, i, curState, patternSubs, invocationSubs, P) ==
    IF i >= getNumChildren(fn)
    THEN printImplFunctionTypeEnd(curState, patternSubs, invocationSubs, P)
    ELSE IF getChild(fn, i).kind = "ImplParameter"
    THEN printImplFunctionTypeFrom(fn, i + 1, State_Inputs, patternSubs,
             invocationSubs,
             print(getChild(fn, i), FALSE,
                   transitionTo(curState, State_Inputs, patternSubs,
                                OutIf(curState = State_Inputs, P, ", "))))
    ELSE IF getChild(fn, i).kind \in ImplResultKinds
    THEN printImplFunctionTypeFrom(fn, i + 1, State_Results, patternSubs,
             invocationSubs,
             print(getChild(fn, i), FALSE,
                   transitionTo(curState, State_Results, patternSubs,
                                OutIf(curState = State_Results, P, ", "))))
    ELSE printImplFunctionTypeFrom(fn, i + 1, curState, patternSubs,
             invocationSubs, Out(print(getChild(fn, i), FALSE, P), " "))

printImplFunctionTypeFrom_NoSeparator(fn, i, curState, patternSubs, invocationSubs, P) ==
    IF i >= getNumChildren(fn)
    THEN printImplFunctionTypeEnd(curState, patternSubs, invocationSubs, P)
    ELSE IF getChild(fn, i).kind = "ImplParameter"
    THEN printImplFunctionTypeFrom(fn, i + 1, State_Inputs, patternSubs,
             invocationSubs,
             print(getChild(fn, i), FALSE,
                   transitionTo(curState, State_Inputs, patternSubs, P)))
    ELSE IF getChild(fn, i).kind \in ImplResultKinds
    THEN printImplFunctionTypeFrom(fn, i + 1, State_Results, patternSubs,
             invocationSubs,
             print(getChild(fn, i), FALSE,
                   transitionTo(curState, State_Results, patternSubs,
                                OutIf(curState = State_Results, P, ", "))))
    ELSE IF getChild(fn, i).kind = "ImplPatternSubstitutions"
    THEN printImplFunctionTypeFrom(fn, i + 1, curState, getChild(fn, i),
             invocationSubs, P)
    ELSE IF getChild(fn, i).kind = "ImplInvocationSubstitutions"
    THEN printImplFunctionTypeFrom(fn, i + 1, curState, patternSubs,
             getChild(fn, i), P)
    ELSE printImplFunctionTypeFrom(fn, i + 1, curState, patternSubs,
             invocationSubs, Out(print(getChild(fn, i), FALSE, P), " "))

\* NodePrinter::printImplFunctionType: the loop over the children from i on
\* and the statements after it
printImplFunctionTypeFrom(fn, i, curState, patternSubs, invocationSubs, P) ==
    IF i >= getNumChildren(fn)
    THEN printImplFunctionTypeEnd(curState, patternSubs, invocationSubs, P)
    ELSE IF getChild(fn, i).kind = "ImplParameter"
    THEN printImplFunctionTypeFrom(fn, i + 1, State_Inputs, patternSubs,
             invocationSubs,
             print(getChild(fn, i), FALSE,
                   transitionTo(curState, State_Inputs, patternSubs,
                                OutIf(curState = State_Inputs, P, ", "))))
    ELSE IF getChild(fn, i).kind \in ImplResultKinds
    THEN printImplFunctionTypeFrom(fn, i + 1, State_Results, patternSubs,
             invocationSubs,
             print(getChild(fn, i), FALSE,
                   transitionTo(curState, State_Results, patternSubs,
                                OutIf(curState = State_Results, P, ", "))))
    ELSE IF getChild(fn, i).kind = "ImplPatternSubstitutions"
    THEN printImplFunctionTypeFrom(fn, i + 1, curState, getChild(fn, i),
             invocationSubs, P)
    ELSE IF getChild(fn, i).kind = "ImplInvocationSubstitutions"
    THEN printImplFunctionTypeFrom(fn, i + 1, curState, patternSubs,
             getChild(fn, i), P)
    ELSE printImplFunctionTypeFrom(fn, i + 1, curState, patternSubs,
             invocationSubs, Out(print(getChild(fn, i), FALSE, P), " "))

\* NodePrinter::printImplFunctionType
printImplFunctionType(fn, P) ==
    printImplFunctionTypeFrom(fn, 0, State_Attrs, nullptr, nullptr, P)

\* print, GenericSpecializationParam: the loop over the children from i on
RECURSIVE printWithAnd(_, _, _)
printWithAnd(children, i, P) ==
    IF i >= Len(children) THEN P
    ELSE LET p1 == Out(P, IF i = 1 THEN " with " ELSE " and ")
         IN printWithAnd(children, i + 1, print(children[i + 1], FALSE, p1))

\* print: the ExtraName literal of the accessor kinds handed to
\* printAbstractStorage
AccessorExtraName ==
    [OwningAddressor |-> "owningAddressor",
     OwningMutableAddressor |-> "owningMutableAddressor",
     NativeOwningAddressor |-> "nativeOwningAddressor",
     NativeOwningMutableAddressor |-> "nativeOwningMutableAddressor",
     NativePinningAddressor |-> "nativePinningAddressor",
     NativePinningMutableAddressor |-> "nativePinningMutableAddressor",
     UnsafeAddressor |-> "unsafeAddressor",
     UnsafeMutableAddressor |-> "unsafeMutableAddressor",
     GlobalGetter |-> "getter", Getter |-> "getter", Setter |-> "setter",
     MaterializeForSet |-> "materializeForSet", WillSet |-> "willset",
     DidSet |-> "didset", ReadAccessor |-> "read", ModifyAccessor |-> "modify"]

\* print: the Description and ParamPrefix of the specialization kinds
SpecializationDescription ==
    [FunctionSignatureSpecialization |->
        <<"function signature specialization", "">>,
     GenericPartialSpecialization |->
        <<"generic partial specialization", "Signature = ">>,
     GenericPartialSpecializationNotReAbstracted |->
        <<"generic not-reabstracted partial specialization", "Signature = ">>,
     GenericSpecialization |-> <<"generic specialization", "">>,
     GenericSpecializationPrespecialized |->
        <<"generic pre-specialization", "">>,
     GenericSpecializationNotReAbstracted |->
        <<"generic not re-abstracted specialization", "">>,
     InlinedGenericFunction |-> <<"inlined generic function", "">>]

\* print: the kinds that print a fixed phrase and then child 0
PhrasePrefix ==
    [Static |-> "static ", CurryThunk |-> "curry thunk of ",
     DispatchThunk |-> "dispatch thunk of ",
     MethodDescriptor |-> "method descriptor for ",
     MethodLookupFunction |-> "method lookup function for ",
     InOut |-> "inout ", Shared |-> "__shared ", Owned |-> "__owned ",
     SILBoxType |-> "@box "]

\* NodePrinter::print, for the node kinds of the checked trees
print(node, asPrefixContext, P) ==
    IF P.aborted \/ P.outOfRange THEN P
    ELSE
    LET kind == node.kind
    IN
    CASE kind \in DOMAIN PhrasePrefix ->
            Ret(print(getChild(node, 0), FALSE, Out(P, PhrasePrefix[kind])), nullptr)
      [] kind = "Extension" ->
            Ret(printIf(getNumChildren(node) = 3 /\ ~P.Options.PrintForTypeName,
                    getChild(node, 2),
                    print(getChild(node, 1), FALSE,
                        IF P.Options.QualifyEntities
                              /\ P.Options.DisplayExtensionContexts
                           THEN Out(print(getChild(node, 0), TRUE,
                                          Out(P, "(extension in ")), "):")
                           ELSE P)), nullptr)
      [] kind = "Variable" ->
            printEntity(node, asPrefixContext, "WithColon", TRUE, "", 0 - 1, "", P)
      [] kind \in {"Function", "BoundGenericFunction"} ->
            printEntity(node, asPrefixContext, "FunctionStyle", TRUE, "", 0 - 1,
                        "", P)
      [] kind = "Subscript" ->
            printEntity(node, asPrefixContext, "FunctionStyle", FALSE, "", 0 - 1,
                        "subscript", P)
      [] kind = "GenericTypeParamDecl" ->
            printEntity(node, asPrefixContext, "NoType", TRUE, "", 0 - 1, "", P)
      [] kind = "ExplicitClosure" ->
            printEntity(node, asPrefixContext,
                        IF P.Options.ShowFunctionArgumentTypes
                           THEN "FunctionStyle" ELSE "NoType",
                        FALSE, "closure #", getChild(node, 1).index + 1, "", P)
      [] kind = "ImplicitClosure" ->
            printEntity(node, asPrefixContext,
                        IF P.Options.ShowFunctionArgumentTypes
                           THEN "FunctionStyle" ELSE "NoType",
                        FALSE, "implicit closure #", getChild(node, 1).index + 1,
                        "", P)
      [] kind = "Global" -> Ret(printChildren(node.children, "", P), nullptr)
      [] kind = "Suffix" ->
            Ret(IF P.Options.DisplayUnmangledSuffix
                   THEN OutAll(Out(P, " with unmangled suffix "),
                               QuotedString(node.bytes))
                   ELSE P, nullptr)
      [] kind = "Initializer" ->
            printEntity(node, asPrefixContext, "NoType", FALSE,
                        "variable initialization expression", 0 - 1, "", P)
      [] kind = "PropertyWrapperBackingInitializer" ->
            printEntity(node, asPrefixContext, "NoType", FALSE,
                        "property wrapper backing initializer", 0 - 1, "", P)
      [] kind = "DefaultArgumentInitializer" ->
            printEntity(node, asPrefixContext, "NoType", FALSE,
                        "default argument ", getChild(node, 1).index, "", P)
      [] kind \in {"DeclContext", "Type"} ->
            Ret(print(getChild(node, 0), FALSE, P), nullptr)
      [] kind = "TypeMangling" ->
            Ret(IF getChild(node, 0).kind = "LabelList"
                   THEN printFunctionType(getChild(node, 0),
                                          getFirstChild(getChild(node, 1)), P)
                   ELSE print(getChild(node, 0), FALSE, P), nullptr)
      [] kind \in {"Class", "Structure", "Enum", "Protocol", "TypeAlias",
                   "OtherNominalType"} ->
            printEntity(node, asPrefixContext, "NoType", TRUE, "", 0 - 1, "", P)
      [] kind = "LocalDeclName" ->
            Ret(OutIf(P.Options.DisplayLocalNameContexts,
                      OutIf(P.Options.DisplayLocalNameContexts,
                            print(getChild(node, 1), FALSE, P), " #"),
                      Dec(getChild(node, 0).index + 1)), nullptr)
      [] kind = "PrivateDeclName" ->
            Ret(IF getNumChildren(node) > 1
                THEN OutIf(P.Options.ShowPrivateDiscriminators,
                         print(getChild(node, 1), FALSE,
                               OutIf(P.Options.ShowPrivateDiscriminators, P, "(")),
                         " in " \o getChild(node, 0).text \o ")")
                ELSE OutIf(P.Options.ShowPrivateDiscriminators, P,
                           "(in " \o getChild(node, 0).text \o ")"), nullptr)
      [] kind = "Module" ->
            Ret(IF P.Options.DisplayModuleNames THEN Out(P, node.text) ELSE P,
                nullptr)
      [] kind \in {"Identifier", "ClangType", "BuiltinTypeName",
                   "MetatypeRepresentation"} ->
            Ret(Out(P, node.text), nullptr)
      [] kind \in {"Index", "SpecializationPassID", "Number"} ->
            Ret(Out(P, Dec(node.index)), nullptr)
      [] kind = "UnknownIndex" -> Ret(Out(P, "unknown index"), nullptr)
      [] kind \in FunctionTypeKinds ->
            Ret(printFunctionType(nullptr, node, P), nullptr)
      [] kind = "ArgumentTuple" ->
            Ret(printFunctionParameters(nullptr, node,
                    P.Options.ShowFunctionArgumentTypes, P), nullptr)
      [] kind = "Tuple" ->
            Ret(Out(printChildren(node.children, ", ", Out(P, "(")), ")"), nullptr)
      [] kind = "TupleElement" ->
            Ret(OutIf(getChildIf(node, "VariadicMarker") # nullptr,
                      print(getChildIf(node, "Type"), FALSE,
                          IF getChildIf(node, "TupleElementName") # nullptr
                             THEN Out(Out(P, getChildIf(node,
                                             "TupleElementName").text), ": ")
                             ELSE P),
                      "..."), nullptr)
      [] kind = "TupleElementName" ->
            Ret(Out(Out(P, node.text), ": "), nullptr)
      [] kind = "ReturnType" ->
            Ret(IF getNumChildren(node) = 0
                   THEN Out(Out(P, " -> "), node.text)
                   ELSE printChildren(node.children, "", Out(P, " -> ")), nullptr)
      [] kind \in SpecializationKinds ->
            Ret(printSpecializationPrefix(node, SpecializationDescription[kind][1],
                    SpecializationDescription[kind][2], P), nullptr)
      [] kind = "IsSerialized" -> Ret(Out(P, "serialized"), nullptr)
      [] kind = "GenericSpecializationParam" ->
            LET p1 == print(getChild(node, 0), FALSE, P)
            IN Ret(printWithAnd(node.children, 1, p1), nullptr)
      [] kind \in {"FunctionSignatureSpecializationReturn",
                   "FunctionSignatureSpecializationParam"} ->
            printer_unreachable(P)
      [] kind = "FunctionSignatureSpecializationParamPayload" ->
            Ret(Out(P, demangledOrText(node.text)), nullptr)
      [] kind = "FunctionSignatureSpecializationParamKind" ->
            Ret(printParamKind(node.index, P), nullptr)
      [] kind \in {"BoundGenericClass", "BoundGenericStructure",
                   "BoundGenericEnum", "BoundGenericProtocol",
                   "BoundGenericOtherNominalType", "BoundGenericTypeAlias"} ->
            Ret(printBoundGeneric(node, P), nullptr)
      [] kind = "DynamicSelf" -> Ret(Out(P, "Self"), nullptr)
      [] kind = "ProtocolList" ->
            LET type_list == getChild(node, 0)
            IN Ret(IF getNumChildren(type_list) = 0 THEN Out(P, "Any")
                   ELSE printChildren(type_list.children, " & ", P), nullptr)
      [] kind = "ProtocolListWithClass" ->
            IF getNumChildren(node) < 2 THEN Ret(P, nullptr)
            ELSE Ret(printChildren(
                         IF getNumChildren(getChild(node, 0)) < 1 THEN <<>>
                         ELSE getChild(getChild(node, 0), 0).children,
                         " & ", Out(print(getChild(node, 1), FALSE, P), " & ")),
                     nullptr)
      [] kind = "ProtocolListWithAnyObject" ->
            IF getNumChildren(node) < 1 THEN Ret(P, nullptr)
            ELSE IF getNumChildren(getChild(node, 0)) < 1 THEN Ret(P, nullptr)
            ELSE Ret(Out(OutIf(P.Options.QualifyEntities
                                   /\ P.Options.DisplayStdlibModule,
                               IF getNumChildren(getChild(getChild(node, 0), 0)) > 0
                                  THEN Out(printChildren(
                                           getChild(getChild(node, 0), 0).children,
                                           " & ", P), " & ")
                                  ELSE P,
                               STDLIB_NAME \o "."), "AnyObject"), nullptr)
      [] kind = "AssociatedType" -> Ret(P, nullptr)
      [] kind \in DOMAIN AccessorExtraName ->
            printAbstractStorage(getFirstChild(node), asPrefixContext,
                                 AccessorExtraName[kind], P)
      [] kind = "Allocator" ->
            printEntity(node, asPrefixContext, "FunctionStyle", FALSE,
                        IF isClassType(getChild(node, 0))
                           THEN "__allocating_init" ELSE "init", 0 - 1, "", P)
      [] kind = "Constructor" ->
            printEntity(node, asPrefixContext, "FunctionStyle",
                        getNumChildren(node) > 2, "init", 0 - 1, "", P)
      [] kind = "Destructor" ->
            printEntity(node, asPrefixContext, "NoType", FALSE, "deinit", 0 - 1,
                        "", P)
      [] kind = "Deallocator" ->
            printEntity(node, asPrefixContext, "NoType", FALSE,
                        IF isClassType(getChild(node, 0))
                           THEN "__deallocating_deinit" ELSE "deinit", 0 - 1, "", P)
      [] kind = "TypeList" -> Ret(printChildren(node.children, "", P), nullptr)
      [] kind = "LabelList" -> Ret(P, nullptr)
      [] kind = "DependentGenericParamType" ->
            \* unsigned index, depth: the checked indexes are below 2^31
            LET index == getChild(node, 1).index
                depth == getChild(node, 0).index
            IN Ret(Out(P, genericParameterName(depth, index)), nullptr)
      [] kind = "AsyncAnnotation" -> Ret(Out(P, " async "), nullptr)
      [] kind = "ThrowsAnnotation" -> Ret(Out(P, " throws "), nullptr)
      [] kind = "FirstElementMarker" ->
            Ret(Out(P, " first-element-marker "), nullptr)
      [] kind = "VariadicMarker" -> Ret(Out(P, " variadic-marker "), nullptr)
      [] kind \in ReferenceStorageKinds ->
            Ret(print(getChild(node, 0), FALSE,
                      Out(Out(P, keywordOf[kind]), " ")), nullptr)
      [] kind = "Metatype" ->
            Ret(Out(printWithParens(
                        getChild(getChild(node,
                            IF getNumChildren(node) = 2 THEN 1 ELSE 0), 0),
                        IF getNumChildren(node) = 2
                           THEN Out(print(getChild(node, 0), FALSE, P), " ")
                           ELSE P),
                    IF isExistentialType(
                           getChild(getChild(node,
                               IF getNumChildren(node) = 2 THEN 1 ELSE 0), 0))
                       THEN ".Protocol" ELSE ".Type"), nullptr)
      [] kind = "ExistentialMetatype" ->
            Ret(Out(print(getChild(node,
                              IF getNumChildren(node) = 2 THEN 1 ELSE 0), FALSE,
                          IF getNumChildren(node) = 2
                             THEN Out(print(getChild(node, 0), FALSE, P), " ")
                             ELSE P), ".Type"), nullptr)
      [] kind = "SILBoxTypeWithLayout" ->
            Ret(IF getNumChildren(node) = 3
                   THEN Out(printChildren(getChild(node, 2).children, ", ",
                                Out(print(getChild(node, 0), FALSE,
                                        Out(print(getChild(node, 1), FALSE, P),
                                            " ")), " <")), ">")
                   ELSE print(getChild(node, 0), FALSE, P), nullptr)
      [] kind = "SILBoxLayout" ->
            Ret(Out(printSILBoxFields(node.children, 0, Out(P, "{")), " }"),
                nullptr)
      [] kind \in {"SILBoxImmutableField", "SILBoxMutableField"} ->
            Ret(print(getChild(node, 0), FALSE,
                      Out(P, IF kind = "SILBoxImmutableField"
                                THEN "let " ELSE "var ")), nullptr)
      [] kind = "SugaredOptional" ->
            Ret(Out(printWithParens(getChild(node, 0), P), "?"), nullptr)
      [] kind = "SugaredArray" ->
            Ret(Out(print(getChild(node, 0), FALSE, Out(P, "[")), "]"), nullptr)
      [] kind = "SugaredDictionary" ->
            Ret(Out(print(getChild(node, 1), FALSE,
                        Out(print(getChild(node, 0), FALSE, Out(P, "[")),
                            " : ")), "]"), nullptr)
      [] kind = "SugaredParen" ->
            Ret(Out(print(getChild(node, 0), FALSE, Out(P, "(")), ")"), nullptr)
      [] kind = "ImplDifferentiable" -> Ret(Out(P, "@differentiable"), nullptr)
      [] kind = "ImplLinear" -> Ret(Out(P, "@differentiable(linear)"), nullptr)
      [] kind = "ImplEscaping" -> Ret(Out(P, "@escaping"), nullptr)
      [] kind \in {"ImplConvention", "ImplFunctionAttribute"} ->
            Ret(Out(P, node.text), nullptr)
      [] kind = "ImplDifferentiability" ->
            Ret(OutIf(node.text # "", Out(P, node.text), " "), nullptr)
      [] kind = "ImplFunctionConvention" ->
            Ret(Out(IF getNumChildren(node) = 1
                       THEN Out(Out(P, "@convention("), getChild(node, 0).text)
                    ELSE IF getNumChildren(node) = 2
                       THEN Out(print(getChild(node, 1), FALSE,
                                      Out(Out(Out(P, "@convention("),
                                              getChild(node, 0).text),
                                          ", mangledCType: \"")), "\"")
                       ELSE Out(P, "@convention("), ")"), nullptr)
      [] kind \in {"ImplFunctionConventionName", "ImplErrorResult"} ->
            Ret(printChildren(node.children, " ", Out(P, "@error ")), nullptr)
      [] kind = "ImplYield" ->
            Ret(printChildren(node.children, " ", Out(P, "@yields ")), nullptr)
      [] kind \in {"ImplParameter", "ImplResult"} ->
            Ret(print(getChild(node, getNumChildren(node) - 1), FALSE,
                      printIf(getNumChildren(node) = 3, getChild(node, 1),
                              Out(print(getChild(node, 0), FALSE, P), " "))),
                nullptr)
      [] kind = "ImplFunctionType" -> Ret(printImplFunctionType(node, P), nullptr)
      [] kind = "ImplInvocationSubstitutions" ->
            Ret(Out(printChildren(getChild(node, 0).children, ", ",
                                  Out(P, "for <")), ">"), nullptr)
      [] kind = "ImplPatternSubstitutions" ->
            Ret(Out(printChildren(getChild(node, 1).children, ", ",
                        Out(print(getChild(node, 0), FALSE,
                                  Out(P, "@substituted ")), " for <")), ">"),
                nullptr)
      [] kind = "ErrorType" -> Ret(Out(P, "<ERROR TYPE>"), nullptr)
      [] kind = "DependentGenericSignature" ->
            Ret(Out(IF numParamCounts(node.children, 0) # getNumChildren(node)
                          /\ P.Options.DisplayWhereClauses
                       THEN printRequirements(node.children,
                                numParamCounts(node.children, 0),
                                numParamCounts(node.children, 0),
                                Out(printGenericDepths(node.children, 0,
                                        numParamCounts(node.children, 0),
                                        Out(P, "<")), " where "))
                       ELSE printGenericDepths(node.children, 0,
                                numParamCounts(node.children, 0), Out(P, "<")),
                    ">"), nullptr)
      [] kind = "DependentGenericParamCount" -> printer_unreachable(P)
      [] kind = "DependentGenericConformanceRequirement" ->
            Ret(print(getChild(node, 1), FALSE,
                      Out(print(getChild(node, 0), FALSE, P), ": ")), nullptr)
      [] kind = "DependentGenericSameTypeRequirement" ->
            Ret(print(getChild(node, 1), FALSE,
                      Out(print(getChild(node, 0), FALSE, P), " == ")), nullptr)
      [] kind = "DependentGenericType" ->
            Ret(print(getChild(node, 1), FALSE,
                      OutIf(needSpaceBeforeType(getChild(node, 1)),
                            print(getChild(node, 0), FALSE, P), " ")), nullptr)

---------------------------------------------------------------------------
(* nodeToString and its callers.                                           *)

\* the NodePrinter object held in the variables
Self ==
    [Printer |-> Printer, Options |-> Options,
     SpecializationPrefixPrinted |-> SpecializationPrefixPrinted,
     isValid |-> isValid, aborted |-> aborted, ret |-> nullptr,
     invalidAt |-> invalidAt, outOfRange |-> outOfRange]

printRootReturn_IgnoreValid(P) ==
    [self |-> P, value |-> Str(P.Printer)]

\* printRoot: the return statements, on the object that print left
printRootReturn(P) ==
    [self |-> P, value |-> IF P.isValid THEN Str(P.Printer) ELSE ""]

\* NodePrinter::printRoot: the object after the call and the string returned
printRoot(r, P) == printRootReturn(print(r, FALSE, [P EXCEPT !.isValid = TRUE]))

Input(r, o) == [root |-> r, options |-> o]

\* later: another invocation was started after the kept one
NoMemo == [set |-> FALSE, root |-> nullptr, options |-> DefaultOptions,
           result |-> "", later |-> FALSE]

\* a caller is about to call nodeToString with an input of Inputs; no
\* NodePrinter exists yet
InitOf(Inputs) ==
    /\ pc = "call"
    /\ \E in \in Inputs : root = in.root /\ options = in.options
    /\ Printer = <<>>
    /\ Options = DefaultOptions
    /\ SpecializationPrefixPrinted = FALSE
    /\ isValid = TRUE
    /\ aborted = FALSE
    /\ result = ""
    /\ memo = NoMemo
    /\ invalidAt = 0 - 1
    /\ outOfRange = FALSE
    /\ calls = <<>>
    /\ printers = <<>>

\* Demangle::nodeToString: the null check and the construction of the
\* temporary NodePrinter
nodeToString ==
    /\ pc = "call"
    /\ IF root = nullptr
          THEN /\ pc' = "done"
               /\ result' = ""
               /\ UNCHANGED <<Printer, Options, SpecializationPrefixPrinted,
                              isValid, aborted, invalidAt, outOfRange>>
          ELSE \E P \in {NodePrinter(options)} :
                  /\ pc' = "printRoot"
                  /\ result' = ""
                  /\ Printer' = P.Printer
                  /\ Options' = P.Options
                  /\ SpecializationPrefixPrinted' = P.SpecializationPrefixPrinted
                  /\ isValid' = P.isValid
                  /\ aborted' = P.aborted
                  /\ invalidAt' = P.invalidAt
                  /\ outOfRange' = P.outOfRange
    /\ UNCHANGED <<root, options, memo>>
    /\ UNCHANGED concurrentVars

\* the strings a caller may get once the behaviour is undefined: nothing,
\* what the buffer held, anything else
UndefinedResults(P) == {"", Str(P.Printer), "?"}

\* Demangle::nodeToString: printRoot runs on the new object and its string
\* is returned (or the process is aborted by printer_unreachable); after a
\* read beyond the children of a node the process ends or some string is
\* returned
PrintRoot ==
    /\ pc = "printRoot"
    /\ \E r \in {printRoot(root, Self)} :
          /\ Printer' = r.self.Printer
          /\ SpecializationPrefixPrinted' = r.self.SpecializationPrefixPrinted
          /\ isValid' = r.self.isValid
          /\ aborted' = r.self.aborted
          /\ invalidAt' = r.self.invalidAt
          /\ outOfRange' = r.self.outOfRange
          /\ IF r.self.aborted
                THEN pc' = "aborted" /\ UNCHANGED result
                ELSE IF r.self.outOfRange
                THEN \/ pc' = "aborted" /\ UNCHANGED result
                     \/ pc' = "done" /\ result' \in UndefinedResults(r.self)
                ELSE pc' = "done" /\ result' = r.value
    /\ UNCHANGED <<root, options, Options, memo>>
    /\ UNCHANGED concurrentVars

\* the caller calls nodeToString again, with an input of Inputs; what the
\* earlier invocation left in memory is still there
Call(Inputs) ==
    /\ pc = "done"
    /\ pc' = "call"
    /\ \E in \in Inputs : root' = in.root /\ options' = in.options
    /\ memo' = [memo EXCEPT !.later = memo.set]
    /\ UNCHANGED <<Printer, Options, SpecializationPrefixPrinted, isValid,
                   aborted, result, invalidAt, outOfRange>>
    /\ UNCHANGED concurrentVars

\* history: the caller keeps the input and the string of a finished invocation
Remember ==
    /\ pc = "done"
    /\ ~memo.set
    /\ memo' = [set |-> TRUE, root |-> root, options |-> options,
                result |-> result, later |-> FALSE]
    /\ UNCHANGED <<pc, root, options, Printer, Options,
                   SpecializationPrefixPrinted, isValid, aborted, result,
                   invalidAt, outOfRange>>
    /\ UNCHANGED concurrentVars

---------------------------------------------------------------------------
(* Concurrent callers of nodeToString.  calls[c] is the frame of call c:   *)
(* its position, its arguments and the string it returned.  printers[p] is *)
(* the NodePrinter object p.  The trees and the options are only read.     *)

NumCalls == 2
CallIds == 1..NumCalls

printerOf_Shared(c) == 1

\* nodeToString: the NodePrinter call c works on, the temporary that its own
\* invocation constructs
printerOf(c) == c

\* no sequential caller is at work
NoSequentialCaller ==
    /\ pc = "none"
    /\ root = nullptr
    /\ options = DefaultOptions
    /\ Printer = <<>>
    /\ Options = DefaultOptions
    /\ SpecializationPrefixPrinted = FALSE
    /\ isValid = TRUE
    /\ aborted = FALSE
    /\ result = ""
    /\ memo = NoMemo
    /\ invalidAt = 0 - 1
    /\ outOfRange = FALSE

\* each caller is about to call nodeToString with an input of Inputs
InitConcurrent(Inputs) ==
    /\ NoSequentialCaller
    /\ calls \in [CallIds ->
                    {[pc |-> "call", root |-> in.root, options |-> in.options,
                      result |-> ""] : in \in Inputs}]
    /\ printers = <<>>

\* Demangle::nodeToString in call c: the null check and the construction of
\* the temporary NodePrinter
ConstructPrinter(c) ==
    /\ calls[c].pc = "call"
    /\ IF calls[c].root = nullptr
          THEN /\ calls' = [calls EXCEPT ![c].pc = "done", ![c].result = ""]
               /\ UNCHANGED printers
          ELSE /\ calls' = [calls EXCEPT ![c].pc = "setValid"]
               /\ printers' =
                     (printerOf(c) :> NodePrinter(calls[c].options)) @@ printers
    /\ UNCHANGED sequentialVars

\* printRoot in call c: isValid = true
SetValid(c) ==
    /\ calls[c].pc = "setValid"
    /\ calls' = [calls EXCEPT ![c].pc = "print"]
    /\ printers' = [printers EXCEPT ![printerOf(c)].isValid = TRUE]
    /\ UNCHANGED sequentialVars

\* printRoot in call c: print(root).  std::abort() ends the process and
\* every call in it.
PrintTree(c) ==
    /\ calls[c].pc = "print"
    /\ \E P \in {print(calls[c].root, FALSE, printers[printerOf(c)])} :
          /\ printers' = [printers EXCEPT ![printerOf(c)] = P]
          /\ IF P.aborted
                THEN calls' = [d \in CallIds |->
                                 [calls[d] EXCEPT !.pc = "aborted"]]
                ELSE IF P.outOfRange
                THEN \/ calls' = [d \in CallIds |->
                                    [calls[d] EXCEPT !.pc = "aborted"]]
                     \/ calls' = [calls EXCEPT ![c].pc = "return"]
                ELSE calls' = [calls EXCEPT ![c].pc = "return"]
    /\ UNCHANGED sequentialVars

\* printRoot in call c: the return statements
ReturnString(c) ==
    /\ calls[c].pc = "return"
    /\ calls' = [calls EXCEPT
                    ![c].pc = "done",
                    ![c].result = printRootReturn(printers[printerOf(c)]).value]
    /\ UNCHANGED printers
    /\ UNCHANGED sequentialVars

---------------------------------------------------------------------------
(* The checked trees.                                                      *)

Module(name) == T("Module", name)
Identifier(name) == T("Identifier", name)
Type(n) == N("Type", <<n>>)
TypeList(types) == N("TypeList", types)
Nominal(kind, context, name) == N(kind, <<context, Identifier(name)>>)

\* the sequences over S of a length from lo to hi
SeqsOf(S, lo, hi) == UNION {[1..n -> S] : n \in lo..hi}

\* Swift.Int
SwiftInt == Nominal("Structure", Module(STDLIB_NAME), "Int")
\* Other.S
OtherS == Nominal("Structure", Module("Other"), "S")
\* the protocol Other.<name>, as a member of a protocol list
Proto(name) == Type(Nominal("Protocol", Module("Other"), name))
ProtocolList(members) == N("ProtocolList", <<TypeList(members)>>)
ProtocolListWithClass(members, superclass) ==
    N("ProtocolListWithClass", <<ProtocolList(members), Type(superclass)>>)
Tuple(elements) == N("Tuple", elements)
TupleElement(type) == N("TupleElement", <<Type(type)>>)
ArgumentTuple(parameters) == N("ArgumentTuple", <<Type(parameters)>>)
ReturnType(type) == N("ReturnType", <<Type(type)>>)
ThrowsAnnotation == N("ThrowsAnnotation", <<>>)
AsyncAnnotation == N("AsyncAnnotation", <<>>)
ClangType == T("ClangType", "c")
\* () -> Swift.Int
SimpleFunctionType ==
    N("FunctionType", <<ArgumentTuple(Tuple(<<>>)), ReturnType(SwiftInt)>>)
\* the entity <context>.<name> : <type>
Entity(kind, context, name, type) ==
    N(kind, <<context, Identifier(name), Type(type)>>)

\* the options with all defaults but those of the record changes
WithOptions(changes) ==
    [f \in DOMAIN DefaultOptions |->
        IF f \in DOMAIN changes THEN changes[f] ELSE DefaultOptions[f]]

\* generic parameters: a depth and an index
NamerIndexes == 0..MaxIndex \cup {675, 676, 17575, 17576}
NamerRoots ==
    {N("DependentGenericParamType", <<I("Index", d), I("Index", i)>>) :
        d \in 0..MaxDepth, i \in NamerIndexes}
NamerInputs == {Input(r, DefaultOptions) : r \in NamerRoots}

SpecNamer == InitOf(NamerInputs) /\ [][nodeToString \/ PrintRoot]_vars

\* unmangled suffixes: every single byte, and the strings over SampleBytes
Bytes == (0..255) \ {96}
SampleBytes == {0, 1, 9, 10, 13, 31, 34, 65, 92, 127, 200}
SuffixTexts == {<<c>> : c \in Bytes} \cup SeqsOf(SampleBytes, 0, MaxStrLen)
SuffixRoots == {B("Suffix", t) : t \in SuffixTexts}
SuffixInputs ==
    {Input(r, WithOptions([DisplayUnmangledSuffix |-> b])) :
        r \in SuffixRoots, b \in BOOLEAN}

SpecSuffix == InitOf(SuffixInputs) /\ [][nodeToString \/ PrintRoot]_vars

\* bound generic types: <kind>(Type(<unbound>(<context>, <name>)), TypeList)
\* with the arguments drawn from ArgTypes
MaxTypeArgs == 2
UnboundKind ==
    [BoundGenericEnum |-> "Enum", BoundGenericStructure |-> "Structure",
     BoundGenericClass |-> "Class", BoundGenericProtocol |-> "Protocol",
     BoundGenericOtherNominalType |-> "OtherNominalType",
     BoundGenericTypeAlias |-> "TypeAlias"]
Unbound(kind, context, name) == Type(Nominal(UnboundKind[kind], context, name))
BoundGeneric(kind, context, name, args) ==
    N(kind, <<Unbound(kind, context, name), TypeList(args)>>)
OptionalInt ==
    BoundGeneric("BoundGenericEnum", Module(STDLIB_NAME), "Optional", <<Type(SwiftInt)>>)
ArgTypes ==
    {Type(u) : u \in {SwiftInt, ProtocolList(<<>>), ProtocolList(<<Proto("P")>>),
                      ProtocolList(<<Proto("P"), Proto("Q")>>),
                      ProtocolListWithClass(<<Proto("P")>>, OtherS),
                      SimpleFunctionType, OptionalInt}}
SugarNames ==
    {"Optional", "ImplicitlyUnwrappedOptional", "Array", "Dictionary", "Box"}
SugarContexts ==
    {Module(STDLIB_NAME), Module("Other"),
     Nominal("Structure", Module(STDLIB_NAME), "Outer")}
SugarKinds == {"BoundGenericEnum", "BoundGenericStructure", "BoundGenericClass"}
\* two children, as the demangler builds them
SugarRoots ==
    {BoundGeneric(k, c, n, a) :
        k \in SugarKinds, c \in SugarContexts, n \in SugarNames,
        a \in SeqsOf(ArgTypes, 0, MaxTypeArgs)}
\* the other bound generic kinds
OtherBoundRoots ==
    {BoundGeneric(k, Module("Other"), "Box", a) :
        k \in DOMAIN UnboundKind \ SugarKinds,
        a \in SeqsOf({Type(SwiftInt), Type(OptionalInt)}, 1, MaxTypeArgs)}
\* no child, one child, three children
OddChildren(k) ==
    {<<>>} \cup
    {<<Unbound(k, Module(STDLIB_NAME), n)>> : n \in SugarNames} \cup
    {<<Unbound(k, Module(STDLIB_NAME), n), TypeList(a), Type(SwiftInt)>> :
        n \in SugarNames, a \in SeqsOf({Type(SwiftInt)}, 0, MaxTypeArgs)}
OddBoundRoots == UNION {{N(k, c) : c \in OddChildren(k)} : k \in SugarKinds}
SugarInputs ==
    {Input(r, WithOptions([SynthesizeSugarOnTypes |-> b])) :
        r \in SugarRoots \cup OtherBoundRoots \cup OddBoundRoots, b \in BOOLEAN}

SpecSugar == InitOf(SugarInputs) /\ [][nodeToString \/ PrintRoot]_vars

\* function types: the children of a function-type node
Parameters ==
    {ArgumentTuple(Tuple(<<>>)), ArgumentTuple(SwiftInt),
     ArgumentTuple(Tuple(<<TupleElement(SwiftInt), TupleElement(OtherS)>>))}
LeadingMarkers ==
    {<<>>, <<ThrowsAnnotation>>, <<AsyncAnnotation>>,
     <<ThrowsAnnotation, AsyncAnnotation>>, <<ClangType>>,
     <<ClangType, ThrowsAnnotation, AsyncAnnotation>>}
WellFormedChildren ==
    {m \o <<p, ReturnType(SwiftInt)>> : m \in LeadingMarkers, p \in Parameters}
\* fewer than 2 or more than 5 children
MiscountedChildren ==
    {<<>>, <<ArgumentTuple(SwiftInt)>>, <<ReturnType(SwiftInt)>>,
     <<ClangType, ThrowsAnnotation, AsyncAnnotation, ArgumentTuple(SwiftInt),
       ReturnType(SwiftInt), ReturnType(SwiftInt)>>}
\* 2 to 5 children, and the child at the parameter position is no
\* ArgumentTuple
MisplacedChildren ==
    {<<Type(SwiftInt), ReturnType(SwiftInt)>>,
     <<Tuple(<<>>), ReturnType(SwiftInt)>>,
     <<ReturnType(SwiftInt), ArgumentTuple(SwiftInt)>>,
     <<ThrowsAnnotation, Type(SwiftInt), ReturnType(SwiftInt)>>,
     <<AsyncAnnotation, ThrowsAnnotation, ArgumentTuple(SwiftInt), ReturnType(SwiftInt)>>,
     <<ClangType, ThrowsAnnotation, AsyncAnnotation, Type(SwiftInt), ReturnType(SwiftInt)>>}
FunctionTypes ==
    {N(k, c) : k \in FunctionTypeKinds,
               c \in WellFormedChildren \cup MiscountedChildren
                         \cup MisplacedChildren}
\* the places of a tree a function type is put at
Places ==
    {"root", "type", "tuple", "optional", "function", "global", "parameter",
     "return"}
Place(place, fn) ==
    CASE place = "root" -> fn
      [] place = "type" -> Type(fn)
      [] place = "tuple" ->
            Type(Tuple(<<TupleElement(SwiftInt), TupleElement(fn), TupleElement(SwiftInt)>>))
      [] place = "optional" ->
            BoundGeneric("BoundGenericEnum", Module(STDLIB_NAME), "Optional",
                         <<Type(fn)>>)
      [] place = "function" -> Entity("Function", Module("Other"), "f", fn)
      [] place = "global" ->
            N("Global", <<OtherS, Type(fn), B("Suffix", <<65>>)>>)
      [] place = "parameter" ->
            N("FunctionType", <<ArgumentTuple(fn), ReturnType(SwiftInt)>>)
      [] place = "return" ->
            N("FunctionType", <<ArgumentTuple(SwiftInt), ReturnType(fn)>>)
FunctionInputs ==
    {Input(Place(w, fn), WithOptions([ShowFunctionArgumentTypes |-> b])) :
        w \in Places, fn \in FunctionTypes, b \in BOOLEAN}

SpecFunction == InitOf(FunctionInputs) /\ [][nodeToString \/ PrintRoot]_vars

\* surface function types: every sequence of leading markers, with and
\* without the parameter and the return child after them, below a function
\* with or without label list
MaxTupleElements == 2
MaxLabels == 2
Markers == {ClangType, ThrowsAnnotation, AsyncAnnotation}
NamedTupleElement(name, type) ==
    N("TupleElement", <<T("TupleElementName", name), Type(type)>>)
SurfaceParameters ==
    {ArgumentTuple(SwiftInt)} \cup
    {ArgumentTuple(Tuple(e)) :
        e \in SeqsOf({TupleElement(SwiftInt), NamedTupleElement("a", OtherS)},
                     0, MaxTupleElements)}
SurfaceChildren ==
    {c \in {m \o t : m \in SeqsOf(Markers, 0, Cardinality(Markers)),
                     t \in {<<>>} \cup {<<p>> : p \in SurfaceParameters}
                               \cup {<<p, ReturnType(SwiftInt)>> :
                                        p \in SurfaceParameters}} :
        Len(c) \in 2..5}
SurfaceLabelLists ==
    {N("LabelList", l) :
        l \in SeqsOf({Identifier("x"), N("FirstElementMarker", <<>>)},
                     0, MaxLabels)}
SurfaceRoots ==
    {N("FunctionType", c) : c \in SurfaceChildren} \cup
    {N("Function", <<Module("Other"), Identifier("f"), l,
                     Type(N("FunctionType", c))>>) :
        l \in SurfaceLabelLists, c \in SurfaceChildren}
SurfaceInputs ==
    {Input(r, WithOptions([ShowFunctionArgumentTypes |-> b])) :
        r \in SurfaceRoots, b \in BOOLEAN}

SpecSurface == InitOf(SurfaceInputs) /\ [][nodeToString \/ PrintRoot]_vars

\* generic signatures: the counts of up to MaxDepths depths, below, at and
\* above the display limit, followed by requirements
MaxDepths == 2
MaxRequirements == 2
ParamCounts == {0, 1, 2, 128, 129, 300}
GenericParam(depth, index) ==
    N("DependentGenericParamType", <<I("Index", depth), I("Index", index)>>)
Requirements ==
    {N("DependentGenericConformanceRequirement",
       <<Type(GenericParam(0, 0)), Type(OtherS)>>),
     N("DependentGenericSameTypeRequirement",
       <<Type(GenericParam(0, 1)), Type(SwiftInt)>>)}
SignatureRoots ==
    {N("DependentGenericSignature", c \o r) :
        c \in SeqsOf({I("DependentGenericParamCount", n) : n \in ParamCounts},
                     0, MaxDepths),
        r \in SeqsOf(Requirements, 0, MaxRequirements)}
SignatureInputs ==
    {Input(r, WithOptions([DisplayWhereClauses |-> b])) :
        r \in SignatureRoots, b \in BOOLEAN}

SpecSignature == InitOf(SignatureInputs) /\ [][nodeToString \/ PrintRoot]_vars

\* specializations: the children of a Global node
MaxGlobalChildren == 3
Specialization(kind) ==
    N(kind, <<I("SpecializationPassID", 0)>> \o
            (IF kind = "FunctionSignatureSpecialization"
                THEN <<N("IsSerialized", <<>>)>>
                ELSE <<N("GenericSpecializationParam", <<Type(SwiftInt)>>)>>))
FunctionF == Entity("Function", Module("Other"), "f", SimpleFunctionType)
GlobalItems ==
    {Specialization(k) : k \in SpecializationKinds} \cup {OtherS, FunctionF}
\* a specialization among the children of another one
NestedSpecialization ==
    N("GenericSpecialization",
      <<I("SpecializationPassID", 0), Specialization("InlinedGenericFunction")>>)
SpecializationRoots ==
    {N("Global", c) : c \in SeqsOf(GlobalItems, 0, MaxGlobalChildren)} \cup
    {N("Global", <<NestedSpecialization, OtherS>>),
     N("Global", <<NestedSpecialization, Specialization("GenericSpecialization"),
                   FunctionF>>)}
SpecializationInputs ==
    {Input(r, WithOptions([DisplayGenericSpecializations |-> b])) :
        r \in SpecializationRoots, b \in BOOLEAN}

SpecSpecialization ==
    InitOf(SpecializationInputs) /\ [][nodeToString \/ PrintRoot]_vars

\* entities: closures, initializers and default arguments in a context
MaxClosureIndex == 1
Closure(kind, context, i, types) ==
    N(kind, <<context, I("Number", i)>> \o types)
ClosureInF ==
    Closure("ExplicitClosure", FunctionF, 0, <<Type(SimpleFunctionType)>>)
EntityContexts ==
    {Module("Other"), Module(STDLIB_NAME), OtherS, FunctionF, ClosureInF}
EntityRoots ==
    {Closure(k, c, i, t) :
        k \in {"ExplicitClosure", "ImplicitClosure"}, c \in EntityContexts,
        i \in 0..MaxClosureIndex, t \in {<<>>, <<Type(SimpleFunctionType)>>}} \cup
    {Closure("DefaultArgumentInitializer", c, i, <<>>) :
        c \in EntityContexts, i \in 0..MaxClosureIndex} \cup
    {N(k, <<c>>) :
        k \in {"Initializer", "PropertyWrapperBackingInitializer", "Destructor"},
        c \in EntityContexts} \cup
    {Entity(k, c, "x", t) :
        k \in {"Function", "Variable"}, c \in EntityContexts,
        t \in {SimpleFunctionType, SwiftInt}}
EntityInputs ==
    {Input(r, WithOptions([QualifyEntities |-> q, ShowFunctionArgumentTypes |-> a,
                           DisplayStdlibModule |-> m, DisplayModuleNames |-> n])) :
        r \in EntityRoots, q \in BOOLEAN, a \in BOOLEAN, m \in BOOLEAN,
        n \in BOOLEAN}

SpecEntity == InitOf(EntityInputs) /\ [][nodeToString \/ PrintRoot]_vars

\* repeated invocations
RepeatedRoots ==
    {nullptr, OptionalInt, SimpleFunctionType, ClosureInF,
     N("FunctionType", <<Type(SwiftInt), ReturnType(SwiftInt)>>),
     B("Suffix", <<9, 34, 1>>),
     N("Global", <<Specialization("GenericSpecialization"), OtherS>>),
     N("Global", <<Specialization("GenericSpecialization"),
                   Specialization("InlinedGenericFunction"), FunctionF>>)}
RepeatedOptions ==
    {DefaultOptions, WithOptions([DisplayGenericSpecializations |-> FALSE]),
     WithOptions([SynthesizeSugarOnTypes |-> FALSE])}
RepeatedInputs == {Input(r, o) : r \in RepeatedRoots, o \in RepeatedOptions}

SpecRepeated ==
    InitOf(RepeatedInputs)
        /\ [][nodeToString \/ PrintRoot \/ Call(RepeatedInputs) \/ Remember]_vars

\* types handed to printWithParens as they are: the child of a
\* SugaredOptional and the type below the Type child of a Metatype
MaxProtocols == 2
ProtocolMembers == SeqsOf({Proto("P"), Proto("Q")}, 0, MaxProtocols)
ProtocolListWithAnyObject(members) ==
    N("ProtocolListWithAnyObject", <<ProtocolList(members)>>)
SugaredOptional(type) == N("SugaredOptional", <<type>>)
Metatype(type) == N("Metatype", <<Type(type)>>)
ExistentialTypes ==
    {ProtocolList(m) : m \in ProtocolMembers}
    \cup {ProtocolListWithAnyObject(m) : m \in ProtocolMembers}
    \cup {ProtocolListWithClass(m, OtherS) : m \in ProtocolMembers}
    \cup {N("ProtocolListWithClass", <<>>)}
FunctionTypesOfEachKind ==
    {N(k, <<p, ReturnType(Type(SwiftInt))>>) :
        k \in FunctionTypeKinds,
        p \in {ArgumentTuple(Tuple(<<>>)), ArgumentTuple(SwiftInt)}}
SILBoxFields ==
    {<<>>, <<N("SILBoxImmutableField", <<Type(SwiftInt)>>)>>,
     <<N("SILBoxMutableField", <<Type(SwiftInt)>>),
       N("SILBoxImmutableField", <<Type(OtherS)>>)>>}
AnnotatedTypes ==
    {N(k, <<Type(t)>>) :
        k \in ReferenceStorageKinds \cup {"SILBoxType", "InOut", "Shared", "Owned"},
        t \in {SwiftInt, OtherS}}
    \cup {N("SILBoxTypeWithLayout", <<N("SILBoxLayout", f)>>) : f \in SILBoxFields}
    \cup {N(k, <<Type(t)>>) :
            k \in {"Metatype", "ExistentialMetatype"},
            t \in {SwiftInt, ProtocolList(<<Proto("P")>>)}}
    \cup {N(k, <<T("MetatypeRepresentation", r), Type(SwiftInt)>>) :
            k \in {"Metatype", "ExistentialMetatype"}, r \in {"@thin", "@thick"}}
    \cup {T("MetatypeRepresentation", r) : r \in {"@thin", "@thick"}}
PlainTypes ==
    {SwiftInt, OtherS, OptionalInt, N("DynamicSelf", <<>>), N("ErrorType", <<>>),
     T("BuiltinTypeName", "Builtin.Int64"), Type(SimpleFunctionType)}
    \cup {Tuple(e) : e \in SeqsOf({TupleElement(SwiftInt)}, 0, 2)}
    \cup {N(k, <<Type(t)>>) :
            k \in {"SugaredOptional", "SugaredArray", "SugaredParen"},
            t \in {SwiftInt, SimpleFunctionType}}
    \cup {N("SugaredDictionary", <<Type(SwiftInt), Type(OtherS)>>)}
ClassifiedTypes ==
    ExistentialTypes \cup FunctionTypesOfEachKind \cup AnnotatedTypes
    \cup PlainTypes
ClassifierRoots ==
    {SugaredOptional(t) : t \in ClassifiedTypes}
    \cup {Metatype(t) : t \in ClassifiedTypes}
ClassifierInputs ==
    {Input(r, WithOptions([QualifyEntities |-> b])) :
        r \in ClassifierRoots, b \in BOOLEAN}

SpecClassifier == InitOf(ClassifierInputs) /\ [][nodeToString \/ PrintRoot]_vars

\* entities in contexts that print as a prefix, print as nothing, or are kept
\* for the suffix
LocalDeclName(name, i) == N("LocalDeclName", <<I("Number", i), Identifier(name)>>)
LocalStruct(context) == N("Structure", <<context, LocalDeclName("L", 0)>>)
BoundGenericFunction(function) ==
    N("BoundGenericFunction", <<function, TypeList(<<Type(SwiftInt)>>)>>)
VariableV == Entity("Variable", Module("Other"), "v", SwiftInt)
LayoutContexts ==
    {Module("Other"), Module(STDLIB_NAME), OtherS, FunctionF,
     BoundGenericFunction(FunctionF), VariableV, ClosureInF,
     N("Initializer", <<VariableV>>), N("Destructor", <<OtherS>>),
     LocalStruct(FunctionF), Nominal("Structure", LocalStruct(FunctionF), "N"),
     Nominal("Structure", FunctionF, "M")}
EntitiesIn(c) ==
    {Nominal("Structure", c, "X"), Entity("Variable", c, "x", SwiftInt),
     Entity("Function", c, "g", SimpleFunctionType),
     BoundGenericFunction(Entity("Function", c, "g", SimpleFunctionType)),
     N("Initializer", <<c>>), N("Destructor", <<c>>),
     Closure("ExplicitClosure", c, 0, <<Type(SimpleFunctionType)>>),
     LocalStruct(c)}
LayoutRoots == UNION {EntitiesIn(c) : c \in LayoutContexts}
LayoutInputs ==
    {Input(r, WithOptions([DisplayLocalNameContexts |-> l, DisplayModuleNames |-> n,
                           ShowFunctionArgumentTypes |-> a,
                           DisplayEntityTypes |-> t])) :
        r \in LayoutRoots, l \in BOOLEAN, n \in BOOLEAN, a \in BOOLEAN,
        t \in BOOLEAN}

SpecLayout == InitOf(LayoutInputs) /\ [][nodeToString \/ PrintRoot]_vars

\* soft-failing nodes with other nodes before and after them: a function
\* type with a miscounted or misplaced child, a Variable without a Type child
SoftFailingNodes ==
    {Type(N(k, c)) :
        k \in {"FunctionType", "ObjCBlock", "ThinFunctionType"},
        c \in MiscountedChildren \cup MisplacedChildren}
    \cup {N("Variable", <<Module("Other"), Identifier("x")>>)}
SoundNodes == {Type(SimpleFunctionType), Entity("Variable", Module("Other"), "x", SwiftInt)}
Followers ==
    {<<>>, <<OtherS>>, <<B("Suffix", <<65>>)>>,
     <<N("FunctionSignatureSpecializationParam", <<>>)>>}
SoftFailRoots ==
    {N("Global", <<OtherS, n>> \o f) :
        n \in SoftFailingNodes \cup SoundNodes, f \in Followers}
SoftFailInputs == {Input(r, DefaultOptions) : r \in SoftFailRoots}

SpecSoftFail == InitOf(SoftFailInputs) /\ [][nodeToString \/ PrintRoot]_vars

\* typed entities: functions, constructors and variables whose type is a
\* function type of each kind, another type, either of them under one or two
\* DependentGenericType nodes, or missing
GenericSignatureA ==
    N("DependentGenericSignature", <<I("DependentGenericParamCount", 1)>>)
DependentGenericType(type) ==
    N("DependentGenericType", <<GenericSignatureA, Type(type)>>)
TypedEntityTypes ==
    FunctionTypesOfEachKind \cup {SwiftInt, OptionalInt, Tuple(<<>>)}
    \cup {DependentGenericType(t) :
            t \in {SimpleFunctionType, SwiftInt,
                   DependentGenericType(SimpleFunctionType),
                   DependentGenericType(SwiftInt)}
                  \cup {N(k, <<ArgumentTuple(Tuple(<<>>)),
                               ReturnType(Type(SwiftInt))>>) :
                            k \in {"ThinFunctionType", "ObjCBlock",
                                   "AutoClosureType"}}}
TypedEntityRoots ==
    {Entity(k, c, "e", t) :
        k \in {"Function", "Variable"}, c \in {Module("Other"), OtherS},
        t \in TypedEntityTypes}
    \cup {N("Constructor", <<OtherS, Type(t)>>) : t \in TypedEntityTypes}
    \cup {N(k, <<c, Identifier("e")>>) :
            k \in {"Function", "Variable"}, c \in {Module("Other"), OtherS}}
    \cup {N("Constructor", <<OtherS>>)}
TypedEntityInputs ==
    {Input(r, WithOptions([DisplayEntityTypes |-> t,
                           ShowFunctionArgumentTypes |-> a,
                           DisplayModuleNames |-> n])) :
        r \in TypedEntityRoots, t \in BOOLEAN, a \in BOOLEAN, n \in BOOLEAN}

SpecTypedEntity ==
    InitOf(TypedEntityInputs) /\ [][nodeToString \/ PrintRoot]_vars

\* impl function types: attributes, parameters and results in role order,
\* the substitution children after them or, the pattern substitutions, at
\* each position among them
MaxImplAttributes == 1
MaxImplParameters == 2
MaxImplResults == 2
ImplConvention(text) == T("ImplConvention", text)
ImplAttributes ==
    {ImplConvention("@callee_guaranteed"), N("ImplEscaping", <<>>)}
ImplParameters ==
    {N("ImplParameter", <<ImplConvention("@guaranteed"), Type(SwiftInt)>>),
     N("ImplParameter", <<ImplConvention("@in"),
                          T("ImplDifferentiability", "@noDerivative"),
                          Type(OtherS)>>)}
ImplResults ==
    {N("ImplResult", <<ImplConvention("@owned"), Type(SwiftInt)>>),
     N("ImplYield", <<ImplConvention("@inout"), Type(OtherS)>>),
     N("ImplErrorResult", <<ImplConvention("@owned"), Type(OtherS)>>)}
ImplPatternSubstitutions ==
    N("ImplPatternSubstitutions",
      <<GenericSignatureA, TypeList(<<Type(SwiftInt)>>)>>)
ImplInvocationSubstitutions ==
    N("ImplInvocationSubstitutions", <<TypeList(<<Type(OtherS)>>)>>)
ImplChildrenInRoleOrder ==
    {a \o p \o r :
        a \in SeqsOf(ImplAttributes, 0, MaxImplAttributes),
        p \in SeqsOf(ImplParameters, 0, MaxImplParameters),
        r \in SeqsOf(ImplResults, 0, MaxImplResults)}
InsertAt(seq, k, x) ==
    SubSeq(seq, 1, k) \o <<x>> \o SubSeq(seq, k + 1, Len(seq))
ImplFunctionRoots ==
    {N("ImplFunctionType", c \o m) :
        c \in ImplChildrenInRoleOrder,
        m \in {<<>>, <<ImplInvocationSubstitutions>>,
               <<ImplPatternSubstitutions, ImplInvocationSubstitutions>>}}
    \cup {N("ImplFunctionType",
             <<ImplPatternSubstitutions>> \o c
                 \o <<ImplInvocationSubstitutions>>) :
            c \in ImplChildrenInRoleOrder}
    \cup UNION {{N("ImplFunctionType", InsertAt(c, k, ImplPatternSubstitutions)) :
                    k \in 0..Len(c)} :
                c \in ImplChildrenInRoleOrder}
ImplFunctionInputs == {Input(r, DefaultOptions) : r \in ImplFunctionRoots}

SpecImplFunction ==
    InitOf(ImplFunctionInputs) /\ [][nodeToString \/ PrintRoot]_vars

\* impl function types whose children come in any order
MaxImplChildren == 3
ImplOrderRoots ==
    {N("ImplFunctionType", c) :
        c \in SeqsOf(ImplAttributes \cup ImplParameters \cup ImplResults,
                     0, MaxImplChildren)}
ImplOrderInputs == {Input(r, DefaultOptions) : r \in ImplOrderRoots}

SpecImplOrder == InitOf(ImplOrderInputs) /\ [][nodeToString \/ PrintRoot]_vars

\* specializations in verbose mode: the children of a specialization node,
\* and the children of a FunctionSignatureSpecializationParam, a sequence of
\* parameter descriptions of which the last may lack payload children
MaxSpecializationChildren == 3
MaxParamDescriptions == 2
MaxClosureTypes == 3
ParamKind(raw) == I("FunctionSignatureSpecializationParamKind", raw)
ParamPayload(text) == T("FunctionSignatureSpecializationParamPayload", text)
ClosurePropDescriptions ==
    {<<ParamKind(FunctionSigSpecializationParamKind.ClosureProp),
       ParamPayload("$s1fyyF")>> \o t :
        t \in SeqsOf({Type(SwiftInt)}, 0, MaxClosureTypes)}
ParamDescriptions ==
    {<<ParamKind(6)>>, <<ParamKind(7)>>, <<ParamKind(64)>>,
     <<ParamKind(64 + 256)>>, <<ParamKind(1024 + 128 + 5)>>,
     <<ParamKind(0), ParamPayload("$s1fyyF")>>,
     <<ParamKind(1), ParamPayload("g")>>, <<ParamKind(2), ParamPayload("42")>>,
     <<ParamKind(3), ParamPayload("1.5")>>,
     <<ParamKind(4), ParamPayload("u8"), ParamPayload("abc")>>}
    \cup ClosurePropDescriptions
RECURSIVE Concatenation(_)
Concatenation(seqs) ==
    IF seqs = <<>> THEN <<>> ELSE Head(seqs) \o Concatenation(Tail(seqs))
TruncatedDescriptions ==
    {SubSeq(d, 1, n) : d \in {<<ParamKind(0), ParamPayload("$s1fyyF")>>,
                              <<ParamKind(4), ParamPayload("u8"),
                                ParamPayload("abc")>>,
                              <<ParamKind(5), ParamPayload("$s1fyyF")>>},
                       n \in 0..2}
ParamChildren ==
    {Concatenation(d) \o t :
        d \in SeqsOf(ParamDescriptions, 0, MaxParamDescriptions),
        t \in TruncatedDescriptions}
SpecializationChildren ==
    {I("SpecializationPassID", 0), N("IsSerialized", <<>>),
     N("FunctionSignatureSpecializationParam", <<>>),
     N("FunctionSignatureSpecializationParam", <<ParamKind(64)>>),
     N("FunctionSignatureSpecializationParam",
       <<ParamKind(0), ParamPayload("$s1fyyF")>>),
     N("FunctionSignatureSpecializationReturn", <<ParamKind(6)>>),
     N("GenericSpecializationParam", <<Type(SwiftInt)>>)}
ParamKindRoots ==
    {ParamKind(raw) :
        raw \in 0..(2 * FunctionSigSpecializationParamKind.ExistentialToGeneric
                        - 1)}
VerboseRoots ==
    ParamKindRoots \cup
    {N(k, c) :
        k \in {"FunctionSignatureSpecialization", "GenericSpecialization",
               "GenericPartialSpecialization"},
        c \in SeqsOf(SpecializationChildren, 0, MaxSpecializationChildren)}
    \cup {N("FunctionSignatureSpecialization",
            <<N("FunctionSignatureSpecializationParam", c)>>) :
            c \in ParamChildren}
VerboseInputs ==
    {Input(r, WithOptions([DisplayGenericSpecializations |-> b])) :
        r \in VerboseRoots, b \in BOOLEAN}

SpecVerbose == InitOf(VerboseInputs) /\ [][nodeToString \/ PrintRoot]_vars

\* two concurrent callers: a null root, plain types, a specialization (the
\* one-shot flag), an inconsistent function type (the validity flag) and a
\* node that reaches printer_unreachable
ConcurrentRoots ==
    {nullptr, OtherS, OptionalInt,
     N("Global", <<Specialization("GenericSpecialization"),
                   Specialization("GenericSpecialization"), OtherS>>),
     N("Global", <<OtherS, N("FunctionType", <<Type(SwiftInt)>>), OtherS>>),
     N("Global", <<OtherS, N("FunctionSignatureSpecializationParam", <<>>)>>)}
ConcurrentOptions ==
    {DefaultOptions, WithOptions([DisplayGenericSpecializations |-> FALSE])}
ConcurrentInputs ==
    {Input(r, o) : r \in ConcurrentRoots, o \in ConcurrentOptions}

SpecConcurrent ==
    InitConcurrent(ConcurrentInputs)
        /\ [][\E c \in CallIds :
                 ConstructPrinter(c) \/ SetValid(c) \/ PrintTree(c)
                     \/ ReturnString(c)]_vars

---------------------------------------------------------------------------
(* The properties.                                                         *)

\* the text a top-level print of node under opts leaves in the buffer
Rendered(node, opts) == Str(print(node, FALSE, NodePrinter(opts)).Printer)

\* the texts of nodes, joined by sep
RECURSIVE Joined(_, _, _)
Joined(nodes, sep, opts) ==
    IF nodes = <<>> THEN ""
    ELSE Rendered(Head(nodes), opts)
             \o (IF Tail(nodes) # <<>> THEN sep ELSE "")
             \o Joined(Tail(nodes), sep, opts)

\* the invocation of nodeToString has returned
Returned == pc = "done"

(* ---- C1 ---- *)

\* fn has fewer than 2 or more than 5 children, or the child at its
\* parameter position is no ArgumentTuple
Inconsistent(fn) ==
    \/ getNumChildren(fn) < 2
    \/ getNumChildren(fn) > 5
    \/ getChild(fn, startAfterAsync(fn)).kind # "ArgumentTuple"

\* a function type at this place is rendered under opts
IsRendered(place, opts) ==
    place \in {"parameter", "return"} => opts.ShowFunctionArgumentTypes

\* C1: when a rendered function-type node has fewer than 2 or more than 5
\* children, or its parameter child is no ArgumentTuple, nodeToString
\* returns the empty string, wherever in the tree the node is and whatever
\* was appended to the buffer before and after it.
C1_InconsistentFunctionTypeGivesEmpty ==
    \A place \in Places, fn \in FunctionTypes :
        (/\ Returned
         /\ root = Place(place, fn)
         /\ IsRendered(place, options)
         /\ Inconsistent(fn))
        => result = ""

\* C1: text was appended before and after the inconsistent function type,
\* and the empty string was returned
C1_Witness ==
    /\ Returned
    /\ root = Place("tuple", N("FunctionType",
                                <<Type(SwiftInt), ReturnType(SwiftInt)>>))
    /\ Str(Printer) = "(Swift.Int,  -> Swift.Int, Swift.Int)"
    /\ ~isValid
    /\ result = ""

(* ---- C2 ---- *)

\* C2: every top-level print starts with an empty buffer, the flag
\* SpecializationPrefixPrinted false and isValid true, and an invocation
\* returns the string that an earlier invocation with the same root and the
\* same options returned, whatever was invoked in between.
C2_SameInputSameString ==
    /\ pc = "printRoot" =>
          Printer = <<>> /\ ~SpecializationPrefixPrinted /\ isValid
    /\ (Returned /\ memo.set /\ memo.root = root /\ memo.options = options)
          => result = memo.result

\* C2: a terse render with two specializations returned, after another
\* invocation, the string that was kept from an earlier invocation
C2_Witness ==
    /\ Returned
    /\ memo.set /\ memo.later
    /\ memo.root = root /\ memo.options = options
    /\ root = N("Global", <<Specialization("GenericSpecialization"),
                           Specialization("InlinedGenericFunction"), FunctionF>>)
    /\ ~options.DisplayGenericSpecializations
    /\ SpecializationPrefixPrinted
    /\ result = "specialized Other.f() -> Swift.Int"
    /\ memo.result = result

(* ---- C3 ---- *)

\* the text of the children of a Global node in terse mode: the marker at
\* the first specialization, nothing at the later ones
RECURSIVE TerseText(_, _, _)
TerseText(children, marked, opts) ==
    IF children = <<>> THEN ""
    ELSE IF Head(children).kind \in SpecializationKinds
        THEN (IF marked THEN "" ELSE "specialized ")
                 \o TerseText(Tail(children), TRUE, opts)
    ELSE Rendered(Head(children), opts) \o TerseText(Tail(children), marked, opts)

\* the number of times s was appended to the buffer
Appended(s) == Cardinality({i \in DOMAIN Printer : Printer[i] = s})

HasSpecialization(node) ==
    \E i \in DOMAIN node.children : node.children[i].kind \in SpecializationKinds

\* C3: in terse mode a render of a tree with one or more specialization
\* nodes appends "specialized " exactly once, at the first of them, and the
\* later specialization nodes append nothing.
C3_SpecializedOnce ==
    (Returned /\ root.kind = "Global" /\ ~options.DisplayGenericSpecializations)
    => /\ result = TerseText(root.children, FALSE, options)
       /\ Appended("specialized ") = IF HasSpecialization(root) THEN 1 ELSE 0
       /\ SpecializationPrefixPrinted = HasSpecialization(root)

\* C3: a terse render with two specializations and text between them
C3_Witness ==
    /\ Returned
    /\ ~options.DisplayGenericSpecializations
    /\ root = N("Global", <<Specialization("GenericSpecialization"), OtherS,
                           Specialization("FunctionSignatureSpecialization")>>)
    /\ Appended("specialized ") = 1
    /\ result = "specialized Other.S"

(* ---- C4 ---- *)

\* root is a two-child bound generic of this kind whose base is
\* Swift.<name>, with nargs type arguments
IsBoundSwift(kind, name, nargs) ==
    /\ root.kind = kind
    /\ getNumChildren(root) = 2
    /\ getChild(getChild(root, 0), 0).children
           = <<Module(STDLIB_NAME), Identifier(name)>>
    /\ getNumChildren(getChild(root, 1)) = nargs

\* type argument i of root (from 1)
Arg(i) == getChild(root, 1).children[i]

\* C4: with sugar synthesis enabled Swift.Optional<T> renders as T?,
\* Swift.ImplicitlyUnwrappedOptional<T> as T!, Swift.Array<T> as [T] and
\* Swift.Dictionary<K, V> as [K : V], without the base type name and the
\* angle brackets.
C4_SugarForms ==
    (Returned /\ options.SynthesizeSugarOnTypes) =>
       /\ IsBoundSwift("BoundGenericEnum", "Optional", 1)
             => result = Rendered(Arg(1), options) \o "?"
       /\ IsBoundSwift("BoundGenericEnum", "ImplicitlyUnwrappedOptional", 1)
             => result = Rendered(Arg(1), options) \o "!"
       /\ IsBoundSwift("BoundGenericStructure", "Array", 1)
             => result = "[" \o Rendered(Arg(1), options) \o "]"
       /\ IsBoundSwift("BoundGenericStructure", "Dictionary", 2)
             => result = "[" \o Rendered(Arg(1), options) \o " : "
                             \o Rendered(Arg(2), options) \o "]"

\* C4: a dictionary from Swift.Int? to Any was rendered with sugar
C4_Witness ==
    /\ Returned
    /\ options.SynthesizeSugarOnTypes
    /\ IsBoundSwift("BoundGenericStructure", "Dictionary", 2)
    /\ Arg(1) = Type(OptionalInt)
    /\ Arg(2) = Type(ProtocolList(<<>>))
    /\ result = "[Swift.Int? : Any]"

(* ---- C5 ---- *)

\* Base<Args>: the base child, '<', the type arguments joined by ", ", '>'
AngleBracketForm(node, opts) ==
    (IF getNumChildren(node) >= 1 THEN Rendered(getChild(node, 0), opts) ELSE "")
        \o "<"
        \o (IF getNumChildren(node) >= 2
               THEN Joined(getChild(node, 1).children, ", ", opts) ELSE "")
        \o ">"

\* root is a two-child bound generic enum or structure whose base has one
\* of the sugared names and whose context is not the module Swift
IsLookalike ==
    /\ root.kind \in {"BoundGenericEnum", "BoundGenericStructure"}
    /\ getNumChildren(root) = 2
    /\ getChild(getChild(getChild(root, 0), 0), 1).kind = "Identifier"
    /\ getChild(getChild(getChild(root, 0), 0), 1).text
           \in {"Optional", "ImplicitlyUnwrappedOptional", "Array", "Dictionary"}
    /\ getChild(getChild(getChild(root, 0), 0), 0) # Module(STDLIB_NAME)

\* C5: a bound generic enum or structure named Optional,
\* ImplicitlyUnwrappedOptional, Array or Dictionary whose context is another
\* module, or is no Module node, has the SugarType None and renders as
\* Base<Args>.
C5_SugarOnlyForSwiftModule ==
    (Returned /\ IsLookalike)
    => /\ findSugar(root) = "None"
       /\ result = AngleBracketForm(root, options)

\* C5: Other.Array<Swift.Int> was rendered with sugar synthesis enabled
C5_Witness ==
    /\ Returned
    /\ options.SynthesizeSugarOnTypes
    /\ IsLookalike
    /\ root = BoundGeneric("BoundGenericStructure", Module("Other"), "Array",
                           <<Type(SwiftInt)>>)
    /\ result = "Other.Array<Swift.Int>"

(* ---- C6 ---- *)

IsBoundGeneric == root.kind \in DOMAIN UnboundKind

\* sugar is disabled, or root is a BoundGenericClass, or root has not 2
\* children
NoSugarCase ==
    \/ ~options.SynthesizeSugarOnTypes
    \/ root.kind = "BoundGenericClass"
    \/ getNumChildren(root) # 2

\* C6, as stated: a bound generic node renders as Base<Args> when sugar is
\* disabled, or it is a BoundGenericClass, or it has not 2 children.
C6_AsStated ==
    (Returned /\ IsBoundGeneric /\ NoSugarCase)
    => result = AngleBracketForm(root, options)

\* C6: a bound generic node with 2 or more children renders as Base<Args>
\* when sugar is disabled, or it is a BoundGenericClass, or it has more than
\* 2 children; a bound generic node with fewer than 2 children renders as
\* nothing.
C6_NoSugarForm ==
    (Returned /\ IsBoundGeneric)
    => /\ (getNumChildren(root) >= 2 /\ NoSugarCase)
             => result = AngleBracketForm(root, options)
       /\ getNumChildren(root) < 2 => result = ""

\* C6: Swift.Dictionary of two arguments was rendered with sugar disabled
C6_Witness ==
    /\ Returned
    /\ ~options.SynthesizeSugarOnTypes
    /\ IsBoundSwift("BoundGenericStructure", "Dictionary", 2)
    /\ Arg(1) = Type(SwiftInt)
    /\ Arg(2) = Type(OptionalInt)
    /\ result = "Swift.Dictionary<Swift.Int, Swift.Optional<Swift.Int>>"

(* ---- C7 ---- *)

\* C7, as stated: when Optional or ImplicitlyUnwrappedOptional sugar is
\* applied, a type argument whose underlying type isSimpleType classifies
\* as compound is rendered inside parentheses before the '?' or '!', and one
\* whose underlying type is simple is rendered without parentheses.
C7_CompoundArgumentParenthesized ==
    \A name \in {"Optional", "ImplicitlyUnwrappedOptional"} :
        (/\ Returned
         /\ options.SynthesizeSugarOnTypes
         /\ IsBoundSwift("BoundGenericEnum", name, 1)
         /\ Arg(1).kind = "Type")
        => result =
              (IF isSimpleType(getChild(Arg(1), 0))
                  THEN Rendered(Arg(1), options)
                  ELSE "(" \o Rendered(Arg(1), options) \o ")")
              \o (IF name = "Optional" THEN "?" ELSE "!")

(* ---- C8 ---- *)

SpacedEntityKinds ==
    {"ExplicitClosure", "ImplicitClosure", "Initializer",
     "PropertyWrapperBackingInitializer", "DefaultArgumentInitializer"}

\* the synthetic name of a spaced entity, with its number
SyntheticName(node) ==
    CASE node.kind = "ExplicitClosure" ->
            "closure #" \o Dec(getChild(node, 1).index + 1)
      [] node.kind = "ImplicitClosure" ->
            "implicit closure #" \o Dec(getChild(node, 1).index + 1)
      [] node.kind = "DefaultArgumentInitializer" ->
            "default argument " \o Dec(getChild(node, 1).index)
      [] node.kind = "Initializer" -> "variable initialization expression"
      [] node.kind = "PropertyWrapperBackingInitializer" ->
            "property wrapper backing initializer"

\* the type that follows the name of a closure
TypeAfterName(node, opts) ==
    IF /\ node.kind \in {"ExplicitClosure", "ImplicitClosure"}
       /\ opts.ShowFunctionArgumentTypes
        THEN " " \o Rendered(getChildIf(node, "Type"), opts)
        ELSE ""

\* C8: an entity with a synthetic name that holds a space, rendered (not as
\* a prefix context) with qualify-entities enabled and a displayable
\* context, has its name and type first and its context only after them,
\* behind " in ", or " of " for the initializer kinds.
C8_ContextAfterSpacedName ==
    (/\ Returned
     /\ root.kind \in SpacedEntityKinds
     /\ options.QualifyEntities
     /\ printContext(getChild(root, 0), NodePrinter(options))
     /\ isValid)
    => result = SyntheticName(root)
                    \o TypeAfterName(root, options)
                    \o (IF root.kind \in {"ExplicitClosure", "ImplicitClosure"}
                           THEN " in " ELSE " of ")
                    \o Rendered(getChild(root, 0), options)

\* C8: a closure in a closure in a function was rendered
C8_Witness ==
    /\ Returned
    /\ options = DefaultOptions
    /\ root = Closure("ImplicitClosure", ClosureInF, 1,
                      <<Type(SimpleFunctionType)>>)
    /\ result = "implicit closure #2 () -> Swift.Int in "
                    \o "closure #1 () -> Swift.Int in Other.f() -> Swift.Int"

(* ---- C9 ---- *)

\* the number of base-26 digits of i
RECURSIVE NumDigits26(_)
NumDigits26(i) == IF i < 26 THEN 1 ELSE 1 + NumDigits26(i \div 26)

\* the letters of the base-26 digits k .. n of i, digit 1 the least
\* significant
RECURSIVE LettersFrom(_, _, _)
LettersFrom(i, k, n) ==
    IF k > n THEN ""
    ELSE Letter[((i \div (26 ^ (k - 1))) % 26) + 1] \o LettersFrom(i, k + 1, n)

\* C9: genericParameterName(d, i) is the base-26 digits of i as letters,
\* the least significant first and at least one, followed by the decimal d
\* if and only if d is not 0; for i below 26 it has one letter, and the name
\* of (0, 26) has two letters, the first of them A.
C9_GenericParameterName ==
    (Returned /\ root.kind = "DependentGenericParamType") =>
        \E d \in {getChild(root, 0).index}, i \in {getChild(root, 1).index} :
            /\ result = LettersFrom(i, 1, NumDigits26(i))
                            \o (IF d # 0 THEN Dec(d) ELSE "")
            /\ i < 26 => result = Letter[i + 1] \o (IF d # 0 THEN Dec(d) ELSE "")
            /\ (d = 0 /\ i = 26) => result = "AB"

\* C9: the name of depth 1, index 26 was rendered
C9_Witness ==
    /\ Returned
    /\ root = N("DependentGenericParamType", <<I("Index", 1), I("Index", 26)>>)
    /\ result = "AB1"

(* ---- C10 ---- *)

\* the escape of the byte c
EscapeOf(c) ==
    IF c \in {92, 9, 10, 13, 34, 0}
        THEN [x \in {92, 9, 10, 13, 34, 0} |->
                CASE x = 92 -> "\\\\" [] x = 9 -> "\\t" [] x = 10 -> "\\n"
                  [] x = 13 -> "\\r" [] x = 34 -> "\\\"" [] x = 0 -> "\\0"][c]
    ELSE IF c < 32 \/ c >= 127
        THEN "\\x" \o Hexdigit[(c \div 16) + 1] \o Hexdigit[(c % 16) + 1]
    ELSE PrintableChar[c - 31]

RECURSIVE Escaped(_)
Escaped(bytes) ==
    IF bytes = <<>> THEN "" ELSE EscapeOf(Head(bytes)) \o Escaped(Tail(bytes))

\* C10: every byte sequence is quoted byte by byte: a double quote, then
\* for each byte its two-character escape (backslash, tab, newline, carriage
\* return, double quote, NUL), or \xHH with two uppercase hex digits for
\* any other byte below 0x20 or from 0x7F on, or the byte itself, then a
\* double quote; the bytes tab, quote, 0x01 give "\t\"\x01" in quotes.
C10_QuotedSuffix ==
    (Returned /\ root.kind = "Suffix" /\ options.DisplayUnmangledSuffix)
    => /\ result = " with unmangled suffix \"" \o Escaped(root.bytes) \o "\""
       /\ Printer[2] = "\"" /\ Printer[Len(Printer)] = "\""
       /\ root.bytes = <<9, 34, 1>>
             => result = " with unmangled suffix \"\\t\\\"\\x01\""

\* C10: the bytes tab, quote, 0x01 were quoted
C10_Witness ==
    /\ Returned
    /\ options.DisplayUnmangledSuffix
    /\ root = B("Suffix", <<9, 34, 1>>)
    /\ result = " with unmangled suffix \"\\t\\\"\\x01\""

(* ---- C11 ---- *)

\* the root hands the type it wraps to printWithParens as it is
IsWrapper ==
    /\ root.kind \in {"SugaredOptional", "Metatype"}
    /\ getNumChildren(root) = 1

\* the type the root wraps
Wrapped ==
    IF root.kind = "SugaredOptional" THEN getChild(root, 0)
    ELSE getChild(getChild(root, 0), 0)

\* what the root appends after the type it wraps
WrapperSuffix ==
    IF root.kind = "SugaredOptional" THEN "?"
    ELSE IF isExistentialType(Wrapped) THEN ".Protocol" ELSE ".Type"

\* the wrapped type was rendered inside parentheses: classified compound
InParens ==
    result = "(" \o Rendered(Wrapped, options) \o ")" \o WrapperSuffix

\* the wrapped type was rendered without parentheses: classified simple
Bare == result = Rendered(Wrapped, options) \o WrapperSuffix

\* the classification of the SugaredOptional of t is the one observed
SameClassification(t) ==
    InParens <=>
        (Rendered(SugaredOptional(t), options)
            = "(" \o Rendered(t, options) \o ")?")

\* C11: a ProtocolList is classified simple exactly when its type list
\* has at most one member, a ProtocolListWithAnyObject exactly when its
\* inner protocol list is empty, a ProtocolListWithClass is compound
\* whatever its children are, and for every other kind the classification
\* is the same for all nodes of the kind.
C11_ProtocolListSimplicity ==
    (Returned /\ IsWrapper) =>
        /\ InParens # Bare
        /\ Wrapped.kind = "ProtocolList" =>
              (Bare <=> getNumChildren(getChild(Wrapped, 0)) <= 1)
        /\ Wrapped.kind = "ProtocolListWithAnyObject" =>
              (Bare <=>
                 getNumChildren(getChild(getChild(Wrapped, 0), 0)) = 0)
        /\ Wrapped.kind = "ProtocolListWithClass" => InParens
        /\ Wrapped.kind \notin {"ProtocolList", "ProtocolListWithAnyObject"} =>
              \A t \in ClassifiedTypes :
                  t.kind = Wrapped.kind => SameClassification(t)

C11_Witness ==
    /\ Returned
    /\ root = SugaredOptional(ProtocolList(<<Proto("P"), Proto("Q")>>))
    /\ result = "(Other.P & Other.Q)?"

(* ---- C12 ---- *)

\* the kinds the classifier is said to call compound
AnnotatedKinds ==
    FunctionTypeKinds \cup ReferenceStorageKinds
    \cup {"ProtocolListWithClass", "SILBoxType", "SILBoxTypeWithLayout",
          "Metatype", "ExistentialMetatype", "MetatypeRepresentation"}

\* C12, as stated: a type of a function-type kind, of a reference-storage
\* kind, of kind ProtocolListWithClass, SILBoxType, SILBoxTypeWithLayout,
\* Metatype, ExistentialMetatype or MetatypeRepresentation is classified
\* compound: it is rendered inside parentheses where printWithParens prints it.
C12_AnnotatedKindsCompound ==
    (Returned /\ IsWrapper /\ Wrapped.kind \in AnnotatedKinds) => InParens

(* ---- C13 ---- *)

\* the NodePrinter of a call that runs alone, after print(root)
PrintedAlone(r, o) == print(r, FALSE, NodePrinter(o))

\* the string of a call that runs alone
ReturnedAlone(r, o) ==
    IF r = nullptr THEN "" ELSE printRootReturn(PrintedAlone(r, o)).value

\* C13: whatever the order in which the steps of the concurrent calls are
\* taken, the buffer and the flags of each call's printer are at every step
\* what the call alone made them (no other call has written them), and the
\* string each call returns is the string it returns when it runs alone.
C13_ConcurrentCallsIndependent ==
    \A c \in CallIds :
        /\ calls[c].pc \in {"setValid", "print"} =>
              printers[printerOf(c)] = NodePrinter(calls[c].options)
        /\ calls[c].pc = "return" =>
              printers[printerOf(c)]
                  = PrintedAlone(calls[c].root, calls[c].options)
        /\ calls[c].pc = "done" =>
              calls[c].result = ReturnedAlone(calls[c].root, calls[c].options)

\* call 1 has printed a specialization and not yet returned, call 2 has
\* soft-failed in between and returned, under other options
C13_Witness ==
    /\ calls[1].pc = "return"
    /\ calls[1].options = WithOptions([DisplayGenericSpecializations |-> FALSE])
    /\ Str(printers[printerOf(1)].Printer) = "specialized Other.S"
    /\ printers[printerOf(1)].SpecializationPrefixPrinted
    /\ calls[2].pc = "done"
    /\ calls[2].options = DefaultOptions
    /\ calls[2].root =
          N("Global", <<OtherS, N("FunctionType", <<Type(SwiftInt)>>), OtherS>>)
    /\ ~printers[printerOf(2)].isValid
    /\ calls[2].result = ""

(* ---- C14 ---- *)

\* printRoot has run to its end, or the process was aborted in it
Ended == pc \in {"done", "aborted"}

\* C14, as stated: once setInvalid was called in a top-level print, nothing
\* more is appended to the buffer (its size stays the size it had at the
\* call of setInvalid), no further node is dispatched (none reaches
\* printer_unreachable), and isValid is still false at the top-level check.
C14_UnwindsAfterSoftFail ==
    (Ended /\ invalidAt >= 0) =>
        /\ ~isValid
        /\ ~aborted
        /\ Size(Printer) = invalidAt

(* ---- C15 ---- *)

\* the entity printEntity lays out for the node
EntityOf(node) ==
    IF node.kind = "BoundGenericFunction" THEN getFirstChild(node) ELSE node

\* the TypePrinting value that print hands to printEntity for the node
TypePrintingOf(node, opts) ==
    CASE node.kind \in {"Function", "BoundGenericFunction", "Subscript",
                        "Allocator", "Constructor"} -> "FunctionStyle"
      [] node.kind = "Variable" -> "WithColon"
      [] node.kind \in {"ExplicitClosure", "ImplicitClosure"} ->
            IF opts.ShowFunctionArgumentTypes THEN "FunctionStyle" ELSE "NoType"
      [] OTHER -> "NoType"

\* the entity kinds whose name is their second child
NamedKinds ==
    {"Function", "Variable", "GenericTypeParamDecl", "Class", "Structure",
     "Enum", "Protocol", "TypeAlias", "OtherNominalType"}

\* the name of the entity is a local declaration name
HasLocalName(node) ==
    /\ EntityOf(node).kind \in NamedKinds
    /\ getChild(EntityOf(node), 1).kind = "LocalDeclName"

\* the entity has a multi-word name under opts
IsMultiWord(node, opts) ==
    \/ node.kind \in SpacedEntityKinds
    \/ HasLocalName(node) /\ opts.DisplayLocalNameContexts

\* the node is an entity that has a type to show or a multi-word name
DefersAsPrefix(node, opts) ==
    \/ TypePrintingOf(node, opts) # "NoType"
    \/ IsMultiWord(node, opts)

\* a NodePrinter is at hand: before print(root) and after it
HasPrinter == pc \in {"printRoot", "done"}

\* the root and its context
RootAndContext == {root, getChild(EntityOf(root), 0)}

\* C15, as stated: printing an entity that has a type to show or a multi-word
\* name as a prefix context leaves the buffer and the flags of the printer
\* as they are and returns the entity itself.
C15_TypedOrMultiWordPrefixDefers ==
    HasPrinter =>
        \A e \in RootAndContext :
            DefersAsPrefix(e, options) => print(e, TRUE, Self) = Ret(Self, e)

(* ---- C16 ---- *)

\* the tokens the context of the node appends when printed as a prefix
PrefixTokens(node, opts) ==
    print(getChild(EntityOf(node), 0), TRUE, NodePrinter(opts)).Printer

\* the context of the node is one printEntity prints as a prefix
ContextAsPrefix(node, opts) ==
    /\ printContext(getChild(EntityOf(node), 0), NodePrinter(opts))
    /\ ~IsMultiWord(node, opts)

\* the buffer does not begin with '.'
NoLeadingDot == Printer = <<>> \/ Printer[1] # "."

\* the buffer begins with the prefix tokens and a '.' after them
DotAfter(prefix) ==
    /\ Len(Printer) > Len(prefix)
    /\ SubSeq(Printer, 1, Len(prefix)) = prefix
    /\ Printer[Len(prefix) + 1] = "."

\* C16: the '.' between a prefix context and the entity name is appended
\* exactly when printing the context as a prefix appended at least one
\* character; a rendering never begins with '.'.
C16_DotOnlyAfterPrintedContext ==
    Returned =>
        /\ NoLeadingDot
        /\ ContextAsPrefix(root, options) =>
              IF PrefixTokens(root, options) # <<>>
                 THEN DotAfter(PrefixTokens(root, options))
                 ELSE NoLeadingDot

\* a structure in a structure of a module whose name is hidden: no '.' for
\* the module, one for the structure
C16_Witness ==
    /\ Returned
    /\ ~options.DisplayModuleNames
    /\ root = Nominal("Structure", OtherS, "X")
    /\ PrefixTokens(OtherS, options) = <<>>
    /\ PrefixTokens(root, options) = <<"S">>
    /\ result = "S.X"

(* ---- C17 ---- *)

\* the context the entity could not print as a prefix
DeferredContext(node, opts) ==
    IF ~printContext(getChild(EntityOf(node), 0), NodePrinter(opts)) THEN nullptr
    ELSE IF IsMultiWord(node, opts) THEN getChild(EntityOf(node), 0)
    ELSE print(getChild(EntityOf(node), 0), TRUE, NodePrinter(opts)).ret

\* the deferred context is to be emitted at the end of printEntity
PostfixEmitted(node, opts, asPrefixContext) ==
    /\ ~asPrefixContext
    /\ DeferredContext(node, opts) # nullptr
    /\ (~HasLocalName(node) \/ opts.DisplayLocalNameContexts)

\* the word that introduces the postfix context
PostfixWord(node) ==
    IF EntityOf(node).kind \in {"Initializer", "DefaultArgumentInitializer",
                                "PropertyWrapperBackingInitializer"}
        THEN " of " ELSE " in "

\* the tokens end with those of tail
EndsWith(tokens, tail) ==
    /\ Len(tokens) >= Len(tail)
    /\ SubSeq(tokens, Len(tokens) - Len(tail) + 1, Len(tokens)) = tail

\* no " in " and no " of " was appended
NoPostfixWord(tokens) ==
    \A i \in 1..Len(tokens) : tokens[i] \notin {" in ", " of "}

\* C17: a context deferred to postfix is emitted exactly when the entity is
\* not printed as a prefix context and its name is no local declaration
\* name or display-local-name-contexts is on; it follows " of " for
\* Initializer, DefaultArgumentInitializer and
\* PropertyWrapperBackingInitializer and " in " otherwise, and null is
\* returned; when it is not emitted the deferred context is returned.
C17_PostfixContext ==
    (Returned /\ isValid) =>
        /\ IF PostfixEmitted(root, options, FALSE)
              THEN /\ EndsWith(Printer,
                          <<PostfixWord(root)>>
                              \o PrintedAlone(DeferredContext(root, options),
                                              options).Printer)
                   /\ PrintedAlone(root, options).ret = nullptr
              ELSE /\ NoPostfixWord(Printer)
                   /\ PrintedAlone(root, options).ret
                          = DeferredContext(root, options)
        /\ ~DefersAsPrefix(root, options) =>
              /\ NoPostfixWord(print(root, TRUE, NodePrinter(options)).Printer)
              /\ print(root, TRUE, NodePrinter(options)).ret
                     = DeferredContext(root, options)

\* a structure in a local structure in a function, the local-name contexts
\* hidden: the local structure hands the function up without emitting it,
\* the structure emits it
C17_Witness ==
    /\ Returned
    /\ ~options.DisplayLocalNameContexts
    /\ options.DisplayModuleNames
    /\ root = Nominal("Structure", LocalStruct(FunctionF), "X")
    /\ Rendered(LocalStruct(FunctionF), options) = "L"
    /\ DeferredContext(root, options) = FunctionF
    /\ result = "L.X in Other.f() -> Swift.Int"

(* ---- C18 ---- *)

\* the Type child of the entity has this type below it
TypeOf(entity) == getChild(getChildIf(entity, "Type"), 0)

\* the text of the entity up to its type: context, '.', name
NameText(entity, opts) ==
    IF entity.kind = "Constructor"
        THEN Rendered(getChild(entity, 0), opts) \o ".init"
        ELSE Rendered(Nominal("Structure", getChild(entity, 0),
                              getChild(entity, 1).text), opts)

\* the type step of an entity whose type is shown in function style when
\* the kind below its DependentGenericType nodes is one of functionKinds
TypeStepText(entity, opts, functionKinds) ==
    IF /\ TypePrintingOf(entity, opts) = "FunctionStyle"
       /\ underlyingType(TypeOf(entity)).kind \in functionKinds
    THEN (IF needSpaceBeforeType(TypeOf(entity)) THEN " " ELSE "")
             \o Rendered(TypeOf(entity), opts)
    ELSE IF opts.DisplayEntityTypes
    THEN " : " \o Rendered(TypeOf(entity), opts)
    ELSE ""

\* the returned string is that of an entity whose type step is the claimed
\* one, the function-style kinds being functionKinds
TypeStepAsClaimed(functionKinds) ==
    (Returned /\ TypePrintingOf(root, options) # "NoType") =>
        IF getChildIf(root, "Type") = nullptr
        THEN ~isValid /\ result = ""
        ELSE /\ isValid
             /\ result = NameText(root, options)
                             \o TypeStepText(root, options, functionKinds)

\* the kinds that keep the function style
EntityFunctionKinds ==
    {"FunctionType", "NoEscapeFunctionType", "UncurriedFunctionType",
     "CFunctionPointer", "ThinFunctionType"}

ImplSubstitutionKinds ==
    {"ImplPatternSubstitutions", "ImplInvocationSubstitutions"}

\* the children of fn of the kinds
ChildrenOfKinds(fn, kinds) ==
    SelectSeq(fn.children, LAMBDA c : c.kind \in kinds)

ParametersOf(fn) == ChildrenOfKinds(fn, {"ImplParameter"})
ResultsOf(fn) == ChildrenOfKinds(fn, ImplResultKinds)
SubstitutionsOf(fn) == ChildrenOfKinds(fn, ImplSubstitutionKinds)
AttributesOf(fn) ==
    SelectSeq(fn.children,
              LAMBDA c : c.kind \notin {"ImplParameter"} \cup ImplResultKinds
                                           \cup ImplSubstitutionKinds)

\* the children are grouped by role: attributes, parameters, results,
\* substitutions
InRoleOrder(fn) ==
    fn.children = AttributesOf(fn) \o ParametersOf(fn) \o ResultsOf(fn)
                      \o SubstitutionsOf(fn)

\* the number of tokens s among tokens
Count(tokens, s) == Cardinality({i \in 1..Len(tokens) : tokens[i] = s})

\* the place of the token s
IndexOf(tokens, s) == CHOOSE i \in 1..Len(tokens) : tokens[i] = s

\* '(', ") -> (" and ')' were each appended once, in this order
OneSignature(tokens) ==
    /\ Count(tokens, "(") = 1
    /\ Count(tokens, ") -> (") = 1
    /\ Count(tokens, ")") = 1
    /\ IndexOf(tokens, "(") < IndexOf(tokens, ") -> (")
    /\ IndexOf(tokens, ") -> (") < IndexOf(tokens, ")")

\* the text before '(', between '(' and ") -> (", between ") -> (" and ')',
\* and after ')'
TextBeforeOpen(tokens) == Str(SubSeq(tokens, 1, IndexOf(tokens, "(") - 1))
TextOfInputs(tokens) ==
    Str(SubSeq(tokens, IndexOf(tokens, "(") + 1, IndexOf(tokens, ") -> (") - 1))
TextOfResults(tokens) ==
    Str(SubSeq(tokens, IndexOf(tokens, ") -> (") + 1, IndexOf(tokens, ")") - 1))
TextAfterClose(tokens) ==
    Str(SubSeq(tokens, IndexOf(tokens, ")") + 1, Len(tokens)))

\* the attributes, each followed by a space
AttributesText(fn, opts) ==
    Joined(AttributesOf(fn), " ", opts)
        \o (IF AttributesOf(fn) # <<>> THEN " " ELSE "")

\* the parameters are between '(' and ") -> (" and the results between
\* ") -> (" and ')', each list joined by ", "
ListsInParentheses(fn, tokens, opts) ==
    /\ TextOfInputs(tokens) = Joined(ParametersOf(fn), ", ", opts)
    /\ TextOfResults(tokens) = Joined(ResultsOf(fn), ", ", opts)

\* C19: the text of an ImplFunctionType whose children are in role order
\* has one '(', one ") -> (" and one ')', in this order, also without
\* parameters or without results; the parameters joined by ", " are between
\* '(' and ") -> (", the results, yields and error results joined by ", "
\* between ") -> (" and ')', and the attributes, each followed by a space,
\* are the first text before '('.
C19_ThreeStateMachine ==
    (Returned /\ root.kind = "ImplFunctionType" /\ InRoleOrder(root)) =>
        /\ isValid /\ ~aborted
        /\ OneSignature(Printer)
        /\ ListsInParentheses(root, Printer, options)
        /\ \E n \in 0..(IndexOf(Printer, "(") - 1) :
               Str(SubSeq(Printer, 1, n)) = AttributesText(root, options)

\* an impl function type of an attribute, two parameters and two results;
\* one without children
C19_Witness ==
    /\ Returned
    /\ root.kind = "ImplFunctionType"
    /\ InRoleOrder(root)
    /\ Len(AttributesOf(root)) = 1
    /\ Len(ParametersOf(root)) = 2
    /\ Len(ResultsOf(root)) = 2
    /\ result = "@callee_guaranteed (@guaranteed Swift.Int, "
                    \o "@in @noDerivative Other.S) -> (@owned Swift.Int, "
                    \o "@yields @inout Other.S)"
    /\ Rendered(N("ImplFunctionType", <<>>), options) = "() -> ()"

(* ---- C20 ---- *)

\* the ImplPatternSubstitutions child of fn, the last one
PatternSubstitutionsOf(fn) ==
    ChildrenOfKinds(fn, {"ImplPatternSubstitutions"})
        [Len(ChildrenOfKinds(fn, {"ImplPatternSubstitutions"}))]

HasPatternSubstitutions(fn) ==
    /\ fn.kind = "ImplFunctionType"
    /\ ChildrenOfKinds(fn, {"ImplPatternSubstitutions"}) # <<>>

\* the text "@substituted ", the generic signature of the substitutions, ' '
SubstitutedPrefix(fn, opts) ==
    "@substituted " \o Rendered(getChild(PatternSubstitutionsOf(fn), 0), opts)
        \o " "

\* the text " for <", the substituted types, '>'
Trailer(types, opts) == " for <" \o Joined(types.children, "", opts) \o ">"

\* the trailer of the pattern substitutions, then that of the invocation
\* substitutions
Trailers(fn, opts) ==
    Trailer(getChild(PatternSubstitutionsOf(fn), 1), opts)
        \o (IF ChildrenOfKinds(fn, {"ImplInvocationSubstitutions"}) # <<>>
               THEN Trailer(getChild(ChildrenOfKinds(fn,
                                {"ImplInvocationSubstitutions"})[1], 0), opts)
               ELSE "")

\* no parameter, result, yield or error result precedes the
\* ImplPatternSubstitutions child of fn
SubstitutionsBeforeSignature(fn) ==
    \A i \in 1..Len(fn.children) :
        fn.children[i].kind = "ImplPatternSubstitutions" =>
            \A j \in 1..(i - 1) :
                fn.children[j].kind \notin {"ImplParameter"} \cup ImplResultKinds

\* the text of fn has its substitutions after ')' only, and before '(' the
\* attributes and, if prefixed, "@substituted " and the generic signature
SubstitutedText(fn, tokens, opts, prefixed) ==
    /\ OneSignature(tokens)
    /\ ListsInParentheses(fn, tokens, opts)
    /\ TextBeforeOpen(tokens) =
           AttributesText(fn, opts)
               \o (IF prefixed THEN SubstitutedPrefix(fn, opts) ELSE "")
    /\ TextAfterClose(tokens) = Trailers(fn, opts)

\* C20, amended: the text of an ImplFunctionType with an
\* ImplPatternSubstitutions child has no substitution between '(' and ')',
\* and after ')' the trailer " for <...>" of the pattern substitutions and
\* then that of the invocation substitutions; "@substituted " and the generic
\* signature precede '(' exactly when the ImplPatternSubstitutions child
\* comes before every parameter, result, yield and error result.
C20_SubstitutedWhenCapturedInAttrs ==
    (Returned /\ HasPatternSubstitutions(root)) =>
        /\ isValid /\ ~aborted
        /\ SubstitutedText(root, Printer, options,
                           SubstitutionsBeforeSignature(root))

\* the pattern substitutions before the parameter: prefix and trailers
C20_Witness ==
    /\ Returned
    /\ HasPatternSubstitutions(root)
    /\ SubstitutionsBeforeSignature(root)
    /\ Len(ParametersOf(root)) = 1
    /\ Len(ResultsOf(root)) = 1
    /\ ChildrenOfKinds(root, {"ImplInvocationSubstitutions"}) # <<>>
    /\ result = "@callee_guaranteed @substituted <A> (@guaranteed Swift.Int)"
                    \o " -> (@owned Swift.Int) for <Swift.Int> for <Other.S>"

\* C20, as stated: wherever the ImplPatternSubstitutions child is among the
\* children, the substitutions are not emitted between '(' and ')',
\* "@substituted " and the generic signature precede '(', and the trailers
\* " for <...>" follow ')', that of the pattern substitutions first.
C20_SubstitutedAtAnyPosition ==
    (Returned /\ HasPatternSubstitutions(root)) =>
        /\ isValid /\ ~aborted
        /\ SubstitutedText(root, Printer, options, TRUE)

(* ---- C21 ---- *)

\* the text of the pieces of buf but the first before and the last after
Between(buf, before, after) == Str(SubSeq(buf, before + 1, Len(buf) - after))

\* the text the parameter decoder appends for the children of node: what a
\* specialization of this one parameter prints between "Arg[0] = " and
\* "> of "
Decoded(node, opts) ==
    Between(print(N("FunctionSignatureSpecialization",
                    <<N("FunctionSignatureSpecializationParam", node.children)>>),
                  FALSE,
                  NodePrinter([opts EXCEPT
                                  !.DisplayGenericSpecializations = TRUE])).Printer,
            5, 1)

\* the child of a specialization node contributes a description
Described(child) ==
    \/ child.kind = "IsSerialized"
    \/ child.kind # "SpecializationPassID" /\ hasChildren(child)

\* the number of the argument that the child at place i stands for
ArgNum(children, i) ==
    Cardinality({j \in 1..(i - 1) :
                    children[j].kind \notin {"SpecializationPassID",
                                             "IsSerialized"}})

\* the description of the child at place i
Description(children, i, ParamPrefix, opts) ==
    CASE children[i].kind = "IsSerialized" -> "serialized"
      [] children[i].kind = "FunctionSignatureSpecializationParam" ->
            ParamPrefix \o "Arg[" \o SDec(ArgNum(children, i)) \o "] = "
                \o Decoded(children[i], opts)
      [] children[i].kind = "FunctionSignatureSpecializationReturn" ->
            ParamPrefix \o "Return = " \o Decoded(children[i], opts)
      [] OTHER -> ParamPrefix \o Rendered(children[i], opts)

\* the descriptions of the children from place i on, joined by ", "
RECURSIVE Descriptions(_, _, _, _, _)
Descriptions(children, i, first, ParamPrefix, opts) ==
    IF i > Len(children) THEN ""
    ELSE IF ~Described(children[i])
    THEN Descriptions(children, i + 1, first, ParamPrefix, opts)
    ELSE (IF first THEN "" ELSE ", ")
             \o Description(children, i, ParamPrefix, opts)
             \o Descriptions(children, i + 1, FALSE, ParamPrefix, opts)

\* C21: in verbose mode a specialization node is rendered as its
\* description, " <", the descriptions of its children joined by ", " and
\* "> of "; a SpecializationPassID child and a childless child other than
\* IsSerialized contribute neither text nor separator, a
\* FunctionSignatureSpecializationParam child is "Arg[n] = " and the decoded
\* parameter, a FunctionSignatureSpecializationReturn child "Return = " and
\* the decoded parameter.
C21_VerboseSpecialization ==
    (Returned /\ options.DisplayGenericSpecializations /\ ~outOfRange
        /\ root.kind \in SpecializationKinds) =>
        /\ isValid
        /\ result = SpecializationDescription[root.kind][1] \o " <"
                        \o Descriptions(root.children, 1, TRUE,
                               SpecializationDescription[root.kind][2], options)
                        \o "> of "

\* a pass id, a parameter without children, a dead parameter and a return
\* value promoted from a box
C21_Witness ==
    /\ Returned
    /\ options.DisplayGenericSpecializations
    /\ root = N("FunctionSignatureSpecialization",
                <<I("SpecializationPassID", 0),
                  N("FunctionSignatureSpecializationParam", <<>>),
                  N("FunctionSignatureSpecializationParam", <<ParamKind(64)>>)>>)
    /\ result = "function signature specialization <Arg[1] = Dead> of "
    /\ Rendered(N("FunctionSignatureSpecialization",
                  <<N("IsSerialized", <<>>),
                    N("FunctionSignatureSpecializationReturn",
                      <<ParamKind(6)>>)>>), options)
           = "function signature specialization <serialized, "
                 \o "Return = Value Promoted from Box> of "

(* ---- C22 ---- *)

\* the flags and the texts of the tags without flag, as print names them
FlagNames ==
    <<<<"ExistentialToGeneric", "Existential To Protocol Constrained Generic">>,
      <<"Dead", "Dead">>, <<"OwnedToGuaranteed", "Owned To Guaranteed">>,
      <<"GuaranteedToOwned", "Guaranteed To Owned">>, <<"SROA", "Exploded">>>>
ExclusiveNames ==
    <<"Constant Propagated Function", "Constant Propagated Global",
      "Constant Propagated Integer", "Constant Propagated Float",
      "Constant Propagated String", "Closure Propagated",
      "Value Promoted from Box", "Stack Promoted from Box">>

\* bit b of raw is set
BitSet(raw, b) == (raw \div (2 ^ b)) % 2 = 1
FlagBit ==
    [ExistentialToGeneric |-> 10, Dead |-> 6, OwnedToGuaranteed |-> 7,
     GuaranteedToOwned |-> 9, SROA |-> 8]
FlagsOf(raw) ==
    SelectSeq(FlagNames, LAMBDA f : BitSet(raw, FlagBit[f[1]]))

RECURSIVE JoinedByAnd(_)
JoinedByAnd(flags) ==
    IF flags = <<>> THEN ""
    ELSE IF Len(flags) = 1 THEN flags[1][2]
    ELSE flags[1][2] \o " and " \o JoinedByAnd(Tail(flags))

\* C22: a FunctionSignatureSpecializationParamKind node whose tag has a flag
\* bit is printed as the names of its set flags in the order
\* ExistentialToGeneric, Dead, OwnedToGuaranteed, GuaranteedToOwned, SROA
\* joined by " and ", whatever its low bits; the text of a mutually
\* exclusive tag is printed only for a tag without flag bit.
C22_FlagsBeforeSwitch ==
    (Returned /\ root.kind = "FunctionSignatureSpecializationParamKind") =>
        /\ isValid
        /\ FlagsOf(root.index) # <<>> =>
               result = JoinedByAnd(FlagsOf(root.index))
        /\ (\E i \in 1..Len(ExclusiveNames) : result = ExclusiveNames[i]) =>
               /\ FlagsOf(root.index) = <<>>
               /\ result = ExclusiveNames[root.index + 1]

\* a tag with two flags and the low bits of ClosureProp, and the tag
\* ClosureProp itself
C22_Witness ==
    /\ Returned
    /\ root = ParamKind(1024 + 128 + 5)
    /\ result = "Existential To Protocol Constrained Generic and "
                    \o "Owned To Guaranteed"
    /\ Rendered(ParamKind(5), options) = "Closure Propagated"
    /\ Rendered(ParamKind(64 + 256 + 512), options)
           = "Dead and Guaranteed To Owned and Exploded"

(* ---- C23 ---- *)

\* the root is a specialization of one parameter, whose children the decoder
\* reads
DecoderRoot ==
    /\ root.kind = "FunctionSignatureSpecialization"
    /\ getNumChildren(root) = 1
    /\ getChild(root, 0).kind = "FunctionSignatureSpecializationParam"

\* the values that Idx takes at the head of the decoder's loop, from Idx on
RECURSIVE TagPositions(_, _)
TagPositions(node, Idx) ==
    IF ~(Idx < getNumChildren(node)) THEN {}
    ELSE {Idx} \cup TagPositions(node, nextIdx(node, Idx))

\* the number of children consumed as payload of the tag at Idx
Consumed(node, Idx) == nextIdx(node, Idx) - Idx - 1

\* the number of Type children in a row from Idx on
RECURSIVE TypeRun(_, _)
TypeRun(node, Idx) ==
    IF Idx < getNumChildren(node) /\ getChild(node, Idx).kind = "Type"
        THEN 1 + TypeRun(node, Idx + 1) ELSE 0

\* the payload count of a tag other than ClosureProp
PayloadCount(V) ==
    CASE V \in 0..3 -> 1
      [] V = 4 -> 2
      [] OTHER -> 0

\* the decoded text of the children of node from tag position to tag position
RECURSIVE DecodedByDescription(_, _, _)
DecodedByDescription(node, Idx, opts) ==
    IF ~(Idx < getNumChildren(node)) THEN ""
    ELSE Decoded(N(node.kind,
                   SubSeq(node.children, Idx + 1,
                          Idx + 1 + (IF getChild(node, Idx).index = 5
                                        THEN 1 + TypeRun(node, Idx + 2)
                                        ELSE PayloadCount(getChild(node, Idx).index)))),
                 opts)
             \o DecodedByDescription(node,
                    Idx + 1 + (IF getChild(node, Idx).index = 5
                                  THEN 1 + TypeRun(node, Idx + 2)
                                  ELSE PayloadCount(getChild(node, Idx).index)),
                    opts)

\* C23 as amended: the tag determines the payload of all tags but
\* ClosureProp: none for BoxToValue, BoxToStack and a tag with flag bits,
\* one child for ConstantPropFunction, ConstantPropGlobal,
\* ConstantPropInteger and ConstantPropFloat, two for ConstantPropString;
\* ClosureProp consumes one child and every Type child that follows it
\* directly, however many there are.
C23_PayloadByTagAndTypeRun ==
    (pc \in {"done", "aborted"} /\ DecoderRoot) =>
        /\ \A i \in TagPositions(getChild(root, 0), 0) :
               Consumed(getChild(root, 0), i)
                   = IF getChild(getChild(root, 0), i).index = 5
                        THEN 1 + TypeRun(getChild(root, 0), i + 2)
                        ELSE PayloadCount(getChild(getChild(root, 0), i).index)
        /\ (Returned /\ ~outOfRange /\ options.DisplayGenericSpecializations
                /\ hasChildren(getChild(root, 0))) =>
               result = "function signature specialization <Arg[0] = "
                            \o DecodedByDescription(getChild(root, 0), 0, options)
                            \o "> of "

\* a closure with two captured types before a constant string
C23_Witness ==
    /\ Returned
    /\ ~outOfRange
    /\ options.DisplayGenericSpecializations
    /\ DecoderRoot
    /\ getChild(root, 0).children
           = <<ParamKind(5), ParamPayload("$s1fyyF"), Type(SwiftInt),
               Type(SwiftInt), ParamKind(4), ParamPayload("u8"),
               ParamPayload("abc")>>
    /\ TagPositions(getChild(root, 0), 0) = {0, 4}
    /\ result = "function signature specialization <Arg[0] = "
                    \o "[Closure Propagated : f() -> (), Argument Types : "
                    \o "[Swift.IntSwift.Int]"
                    \o "[Constant Propagated String : u8'abc']> of "

\* C23: the tag alone determines the number of payload children, which is
\* between 0 and 3, and 0 for BoxToValue, BoxToStack and a tag with flag bits.
C23_PayloadByTagAlone ==
    (pc \in {"done", "aborted"} /\ DecoderRoot) =>
        \A i \in TagPositions(getChild(root, 0), 0) :
            /\ Consumed(getChild(root, 0), i) \in 0..3
            /\ getChild(getChild(root, 0), i).index \notin 0..5 =>
                   Consumed(getChild(root, 0), i) = 0
            /\ \A j \in TagPositions(getChild(root, 0), 0) :
                   getChild(getChild(root, 0), i).index
                           = getChild(getChild(root, 0), j).index =>
                       Consumed(getChild(root, 0), i)
                           = Consumed(getChild(root, 0), j)

(* ---- C29 ---- *)

\* the value of Idx when the decoder's loop is left, entered with Idx
RECURSIVE IdxAtExit(_, _)
IdxAtExit(node, Idx) ==
    IF ~(Idx < getNumChildren(node)) THEN Idx
    ELSE IdxAtExit(node, nextIdx(node, Idx))

\* C29: the decoder's loop ends on every child list, every iteration
\* advances the index by at least one, the loop is left exactly when the
\* index has reached the number of children, and no child position at or
\* beyond that number is read.
C29_DecoderStaysInRange ==
    (pc \in {"done", "aborted"} /\ DecoderRoot) =>
        /\ \A i \in TagPositions(getChild(root, 0), 0) :
               nextIdx(getChild(root, 0), i) > i
        /\ IdxAtExit(getChild(root, 0), 0) = getNumChildren(getChild(root, 0))
        /\ ~outOfRange

(* ---- C24 ---- *)

\* the place of a marker in the order of the tests of printFunctionType
MarkerRank(marker) ==
    CASE marker.kind = "ClangType" -> 1
      [] marker.kind = "ThrowsAnnotation" -> 2
      [] marker.kind = "AsyncAnnotation" -> 3

\* the markers are in the order ClangType, ThrowsAnnotation, AsyncAnnotation,
\* each at most once
InMarkerOrder(markers) ==
    \A i \in 1..(Len(markers) - 1) :
        MarkerRank(markers[i]) < MarkerRank(markers[i + 1])

\* the children of the root before the last two
LeadingChildren == SubSeq(root.children, 1, Len(root.children) - 2)

\* the root is a function type of markers, parameters and return type
MarkedFunctionType ==
    /\ root.kind = "FunctionType"
    /\ getNumChildren(root) \in 2..5
    /\ root.children[Len(root.children)].kind = "ReturnType"
    /\ root.children[Len(root.children) - 1].kind = "ArgumentTuple"
    /\ \A i \in 1..Len(LeadingChildren) : LeadingChildren[i] \in Markers

\* the text of the parameter list of the root
ParameterList ==
    Str(printFunctionParameters(nullptr,
            root.children[Len(root.children) - 1],
            options.ShowFunctionArgumentTypes, NodePrinter(options)).Printer)

HasMarker(kind) ==
    \E i \in 1..Len(LeadingChildren) : LeadingChildren[i].kind = kind

\* C24: after the parameter list a function type emits " async" if it has
\* consumed an AsyncAnnotation, " throws" if it has consumed a
\* ThrowsAnnotation and the return type, all of it if and only if
\* ShowFunctionArgumentTypes is on; the markers are consumed only in the
\* order ClangType, ThrowsAnnotation, AsyncAnnotation, one child each, so
\* that markers in any other order leave a marker at the place of the
\* parameters.
C24_AsyncThrowsReturn ==
    (Returned /\ MarkedFunctionType) =>
        /\ ~outOfRange
        /\ isValid <=> InMarkerOrder(LeadingChildren)
        /\ isValid =>
               result = ParameterList
                   \o (IF ~options.ShowFunctionArgumentTypes THEN ""
                       ELSE (IF HasMarker("AsyncAnnotation") THEN " async" ELSE "")
                            \o (IF HasMarker("ThrowsAnnotation")
                                   THEN " throws" ELSE "")
                            \o Rendered(root.children[Len(root.children)],
                                        options))

\* a throwing asynchronous function type with types shown, and the same
\* node with types hidden
C24_Witness ==
    /\ Returned
    /\ options.ShowFunctionArgumentTypes
    /\ root = N("FunctionType",
                <<ThrowsAnnotation, AsyncAnnotation, ArgumentTuple(SwiftInt),
                  ReturnType(SwiftInt)>>)
    /\ result = "(Swift.Int) async throws -> Swift.Int"
    /\ Rendered(root, [options EXCEPT !.ShowFunctionArgumentTypes = FALSE])
           = "(_:)"

(* ---- C25 ---- *)

\* the function type that the root is or has as its type, and the label
\* list that comes with it
SurfaceType ==
    IF root.kind = "Function" THEN getFirstChild(getChildIf(root, "Type"))
    ELSE root
SurfaceLabels ==
    IF root.kind = "Function" THEN getChildIf(root, "LabelList") ELSE nullptr

\* the root is a function type, or a function of such a type, of markers in
\* the order of the tests, parameters and return type
SurfaceFunction ==
    /\ root.kind \in {"Function", "FunctionType"}
    /\ SurfaceType.kind = "FunctionType"
    /\ getNumChildren(SurfaceType) \in 2..5
    /\ SurfaceType.children[Len(SurfaceType.children)].kind = "ReturnType"
    /\ SurfaceType.children[Len(SurfaceType.children) - 1].kind
           = "ArgumentTuple"
    /\ \A i \in 1..(Len(SurfaceType.children) - 2) :
           SurfaceType.children[i] \in Markers
    /\ InMarkerOrder(SubSeq(SurfaceType.children, 1,
                            Len(SurfaceType.children) - 2))

\* the parameters: the node below the ArgumentTuple and its Type
SurfaceParameter ==
    getFirstChild(getFirstChild(
        SurfaceType.children[Len(SurfaceType.children) - 1]))

\* the label list has a label for every element of the parameter tuple
LabelsCoverElements ==
    \/ SurfaceParameter.kind # "Tuple"
    \/ SurfaceLabels = nullptr
    \/ getNumChildren(SurfaceLabels) = 0
    \/ getNumChildren(SurfaceLabels) >= getNumChildren(SurfaceParameter)

\* the label of the element at place i, with its colon
ElementLabel(labels, element, i, showTypes) ==
    IF labels # nullptr /\ getNumChildren(labels) > 0
        THEN (IF labels.children[i].kind = "Identifier"
                 THEN labels.children[i].text ELSE "_")
                 \o ":" \o (IF showTypes THEN " " ELSE "")
    ELSE IF showTypes THEN ""
    ELSE IF \E j \in 1..Len(element.children) :
                element.children[j].kind = "TupleElementName"
        THEN element.children[1].text \o ":"
    ELSE "_:"

\* the elements from place i on, joined by sep
RECURSIVE Elements(_, _, _, _, _, _)
Elements(labels, elements, i, showTypes, sep, opts) ==
    IF i > Len(elements) THEN ""
    ELSE ElementLabel(labels, elements[i], i, showTypes)
             \o (IF showTypes THEN Rendered(elements[i], opts) ELSE "")
             \o (IF i < Len(elements) THEN sep ELSE "")
             \o Elements(labels, elements, i + 1, showTypes, sep, opts)

\* the parameter list, its elements joined by sep
ParameterListText(sep) ==
    IF SurfaceParameter.kind # "Tuple"
        THEN IF options.ShowFunctionArgumentTypes
                THEN "(" \o Rendered(SurfaceParameter, options) \o ")"
                ELSE "(_:)"
    ELSE "(" \o Elements(SurfaceLabels, SurfaceParameter.children, 1,
                         options.ShowFunctionArgumentTypes, sep, options)
             \o ")"

\* what follows the parameter list
AfterParameterList ==
    IF ~options.ShowFunctionArgumentTypes THEN ""
    ELSE (IF \E i \in 1..Len(SurfaceType.children) :
                 SurfaceType.children[i].kind = "AsyncAnnotation"
             THEN " async" ELSE "")
         \o (IF \E i \in 1..Len(SurfaceType.children) :
                    SurfaceType.children[i].kind = "ThrowsAnnotation"
                THEN " throws" ELSE "")
         \o Rendered(SurfaceType.children[Len(SurfaceType.children)], options)

\* the parameter list is rendered with its elements joined by the separators
ParameterListAsClaimed(shownSep, hiddenSep) ==
    (Returned /\ SurfaceFunction /\ LabelsCoverElements) =>
        /\ ~outOfRange
        /\ isValid
        /\ result = (IF root.kind = "Function" THEN "Other.f" ELSE "")
                        \o ParameterListText(
                               IF options.ShowFunctionArgumentTypes
                                  THEN shownSep ELSE hiddenSep)
                        \o AfterParameterList

C27_ReadsOnlyExistingChildren ==
    (pc \in {"done", "aborted"}
        /\ root.kind \in {"Function", "FunctionType"}
        /\ getNumChildren(SurfaceType) \in 2..5) =>
        ~outOfRange

(* ---- C26 ---- *)

\* the names of the generic parameters index .. last of depth, joined by ", "
RECURSIVE NamesFrom(_, _, _)
NamesFrom(depth, index, last) ==
    IF index > last THEN ""
    ELSE IF index = last THEN genericParameterName(depth, index)
    ELSE NamesFrom(depth, index, (index + last) \div 2) \o ", "
             \o NamesFrom(depth, (index + last) \div 2 + 1, last)

\* the group of a depth of count parameters
Group(depth, count) ==
    IF count > 128 THEN NamesFrom(depth, 0, 127) \o ", ..."
    ELSE NamesFrom(depth, 0, count - 1)

\* the groups of the depths from depth on, separated by "><"
RECURSIVE Groups(_, _)
Groups(children, depth) ==
    IF depth >= Len(children)
           \/ children[depth + 1].kind # "DependentGenericParamCount" THEN ""
    ELSE (IF depth # 0 THEN "><" ELSE "")
             \o Group(depth, children[depth + 1].index)
             \o Groups(children, depth + 1)

\* the children that are no DependentGenericParamCount
RequirementsOf(node) ==
    SelectSeq(node.children,
              LAMBDA c : c.kind # "DependentGenericParamCount")

\* the number of DependentGenericParamCount children
DepthsOf(node) == Len(node.children) - Len(RequirementsOf(node))

\* the number of pieces of the buffer that are names or ellipses of the
\* groups: those before the " where " that are neither bracket nor separator
GroupPieces(buf) ==
    Cardinality({i \in 1..Len(buf) :
                    /\ buf[i] \notin {"<", ">", "><", ", ", " where "}
                    /\ \A j \in 1..i : buf[j] # " where "})

\* C26: a generic signature is rendered as '<', a group for each leading
\* DependentGenericParamCount child, the groups separated by "><", the
\* group of depth d listing the names of the indexes 0 .. count - 1 joined
\* by ", ", of a count above 128 the first 128 names followed by ", ...",
\* so that no group takes more than 129 iterations; then, if there are
\* further children and DisplayWhereClauses is on, " where " and those
\* children joined by ", "; then '>'.
C26_GenericSignature ==
    (Returned /\ root.kind = "DependentGenericSignature") =>
        /\ isValid
        /\ result = "<" \o Groups(root.children, 0)
                        \o (IF RequirementsOf(root) # <<>>
                                  /\ options.DisplayWhereClauses
                               THEN " where "
                                        \o Joined(RequirementsOf(root), ", ",
                                                  options)
                               ELSE "")
                        \o ">"
        /\ GroupPieces(Printer) <= 129 * DepthsOf(root)

\* 300 parameters at depth 0 and 129 at depth 1, with a requirement
C26_Witness ==
    /\ Returned
    /\ options.DisplayWhereClauses
    /\ root = N("DependentGenericSignature",
                <<I("DependentGenericParamCount", 300),
                  I("DependentGenericParamCount", 129),
                  N("DependentGenericConformanceRequirement",
                    <<Type(GenericParam(0, 0)), Type(OtherS)>>)>>)
    /\ GroupPieces(Printer) = 2 * 129
    /\ result = "<" \o NamesFrom(0, 0, 127) \o ", ...><"
                    \o NamesFrom(1, 0, 127) \o ", ... where A: Other.S>"

(* ---- C28 ---- *)

\* the pieces that the attribute and the parameter children print first
AttributeTexts == {"@callee_guaranteed", "@escaping"}
ParameterConventions == {"@guaranteed", "@in"}

\* the places of the buffer that hold piece
PlacesOf(buf, piece) == {i \in 1..Len(buf) : buf[i] = piece}

\* a parameter child comes after a result, yield or error result child
ParameterAfterResult(node) ==
    \E i, j \in 1..Len(node.children) :
        /\ i < j
        /\ node.children[i].kind \in ImplResultKinds
        /\ node.children[j].kind = "ImplParameter"

\* C28: the states of an impl function type only move forward from Attrs to
\* Inputs to Results: '(' and ") -> (" are emitted at most once and in this
\* order, no text of an attribute child follows the '(', no parameter
\* follows the ") -> (", and a parameter child after a result child ends in
\* the fatal error of the state after Results.
C28_StatesMoveForward ==
    (pc \in {"done", "aborted"} /\ root.kind = "ImplFunctionType") =>
        /\ Cardinality(PlacesOf(Printer, "(")) <= 1
        /\ Cardinality(PlacesOf(Printer, ") -> (")) <= 1
        /\ \A i \in PlacesOf(Printer, ") -> (") :
               \E j \in PlacesOf(Printer, "(") : j < i
        /\ \A i \in PlacesOf(Printer, "(") :
               \A j \in (i + 1)..Len(Printer) : Printer[j] \notin AttributeTexts
        /\ \A i \in PlacesOf(Printer, ") -> (") :
               \A j \in (i + 1)..Len(Printer) :
                   Printer[j] \notin ParameterConventions
        /\ ParameterAfterResult(root) <=> pc = "aborted"

(* ---- C30 ---- *)

\* C30: the names of two different pairs of depth and index differ: the
\* name of the rendered generic parameter is the name of no other pair of
\* the checked depths and indexes.
C30_NamesDiffer ==
    (Returned /\ root.kind = "DependentGenericParamType") =>
        \A d \in 0..MaxDepth, i \in NamerIndexes :
            <<d, i>> # <<getChild(root, 0).index, getChild(root, 1).index>> =>
                genericParameterName(d, i) # result

\* the name of depth 1, index 26, next to the names it could be taken for
C30_Witness ==
    /\ Returned
    /\ root = GenericParam(1, 26)
    /\ result = "AB1"
    /\ genericParameterName(0, 26) = "AB"
    /\ genericParameterName(1, 1) = "B1"
    /\ genericParameterName(1, 0) = "A1"

=============================================================================
